---- MODULE Spec2Model ----
(***************************************************************************)
(* Share-ledger ingestion of alice_ai_server: the sync engines             *)
(* (block_chain/sync.rs, block_chain/monad.rs, block_chain/sui.rs), the    *)
(* trade processor and ledger operations (db/operations.rs) and the        *)
(* signature-verification route (routes/signature.rs).                     *)
(***************************************************************************)
EXTENDS Integers, Sequences, FiniteSets, TLC

\* ------------------------------------------------------------ bounds ----
\* Highest block the chain reaches.
MaxHead == 2
\* Largest share amount of one ledger operation (ledger runs).
MaxAmount == 2
\* Most operations of one processor run (events handed to the trade
\* processor, verify requests served and failures injected, together), and
\* most ledger operations of one ledger run.
MaxApplied == 5
\* Most verify requests served.
MaxVerify == 1
\* Most verify requests served in a binder run.
MaxBind == 2
\* Most disruptions (a failing RPC, storage or platform call, or a restart
\* of the process) in one behaviour.
MaxFaults == 1
\* Largest holding a trader has on chain before the first observed event.
MaxPre == 1
\* Largest holding of one trader in one subject the contract reaches.
MaxHolding == 10

\* ------------------------------------------------- program constants ----
\* const BLOCK_BATCH_SIZE: u64 = 100
BLOCK_BATCH_SIZE == 100
\* get_events(cursor_str.clone(), 100)
PAGE_LIMIT == 100
\* config.start_block (START_BLOCK)
StartBlock == 0

Traders == {"aa"}
Subjects == {"bb"}
\* Messaging identities a verify request can carry as its challenge.
TelegramIds == {"42", "abc"}
\* The three sync-engine implementations of the repository.
Engines == {"sync", "monad", "sui"}

None == << >>
Some(x) == <<x>>
IsSome(o) == o # << >>
Unwrap(o) == o[1]

Min(a, b) == IF a <= b THEN a ELSE b

\* str::parse::<u64>() of a messaging identity: Some(n) or None on error.
ParseU64(s) ==
    CASE s = "42" -> Some(42)
      [] OTHER -> None

VARIABLES
    engine,             \* the sync-engine implementation that runs
    chain_head,         \* provider.get_block_number()
    chain_events,       \* the contract's Trade events, in emission order
    shares_balance,     \* the contract's sharesBalance(subject, holder)
    trades,             \* table trades: (trader, subject) -> share_amount
    user_mappings,      \* table user_mappings: address -> row
    sync_status,        \* table sync_status: its rows, oldest first
    telegram_bots,      \* table telegram_bots: the subjects with a bot/chat
    chat,               \* messaging platform: the restricted members per subject
    pc,                 \* position of the sync engine in its loop
    last_synced_block,  \* sync_events: let mut last_synced_block
    cursor_str,         \* sui sync_events: let mut cursor_str
    current_block,      \* sync_events: let current_block
    end_block,          \* sync_events: let end_block
    batch,              \* fetched events not yet handed to the processor
                        \* (ledger runs: the operations being replayed)
    next_cursor,        \* sui: events.nextCursor of the fetched page
    handed,             \* (index, result) of chain events handed to the processor
    applied,            \* ledger operations applied so far (ledger runs)
    nsteps,             \* events handed directly to the processor so far
    acts,               \* moderation actions issued by the last step
    result,             \* outcome of the last step
    restarts,           \* process restarts so far
    faults,             \* disruptions so far
    verifies,           \* verify requests served so far
    sig_call,           \* the last verify_signature call and what it returned
    started,            \* chain runs: the chains whose engine task has started
    inflight,           \* engine runs: the batch fetched by the iteration under
                        \* way, as it was fetched
    own_shares          \* handle_verify between the balance read and the
                        \* platform call: the request whose own_shares is true

vars == << engine, chain_head, chain_events, shares_balance, trades,
           user_mappings, sync_status, telegram_bots, chat, pc,
           last_synced_block, cursor_str, current_block, end_block, batch,
           next_cursor, handed, applied, nsteps, acts, result,
           restarts, faults, verifies,
          sig_call, started, inflight, own_shares >>

chainVars == << chain_head, chain_events, shares_balance >>
dbVars == << trades, user_mappings, sync_status >>
engVars == << pc, last_synced_block, cursor_str, current_block, end_block,
              batch, next_cursor >>

\* --------------------------------------------------- ledger store ----
\* Partial-function update (a row insert or update).
Put(f, k, v) == [x \in (DOMAIN f) \cup {k} |-> IF x = k THEN v ELSE f[x]]

\* process_buy_trade: INSERT ... ON CONFLICT (trader, subject) DO UPDATE
\* SET share_amount = trades.share_amount + $3
ProcessBuyTradeOverwrite(tr, trader, subject, share_amount) ==
    Put(tr, <<trader, subject>>, share_amount)
ProcessBuyTrade(tr, trader, subject, share_amount) ==
    IF <<trader, subject>> \in DOMAIN tr
    THEN Put(tr, <<trader, subject>>, tr[<<trader, subject>>] + share_amount)
    ELSE Put(tr, <<trader, subject>>, share_amount)

\* A sell that inserts the row it does not find.
SellUpdateUpsert(tr, trader, subject, share_amount) ==
    LET had == IF <<trader, subject>> \in DOMAIN tr
               THEN tr[<<trader, subject>>] ELSE 0
    IN  [trades |-> Put(tr, <<trader, subject>>, had - share_amount),
         ret |-> Some(had - share_amount)]
\* An UPDATE that stops the stored amount at zero.
SellUpdateClamped(tr, trader, subject, share_amount) ==
    IF <<trader, subject>> \in DOMAIN tr
    THEN LET left == IF tr[<<trader, subject>>] >= share_amount
                     THEN tr[<<trader, subject>>] - share_amount ELSE 0
         IN  [trades |-> Put(tr, <<trader, subject>>, left),
              ret |-> Some(left)]
    ELSE [trades |-> tr, ret |-> None]
\* process_sell_trade, the UPDATE ... RETURNING share_amount: the new table
\* and the returned row (None when no row matched).
SellUpdate(tr, trader, subject, share_amount) ==
    IF <<trader, subject>> \in DOMAIN tr
    THEN [trades |-> Put(tr, <<trader, subject>>,
                         tr[<<trader, subject>>] - share_amount),
          ret |-> Some(tr[<<trader, subject>>] - share_amount)]
    ELSE [trades |-> tr, ret |-> None]

\* A match that also takes a balance below zero as a reason to ban.
SellDecisionAtMostZero(ret, um, trader) ==
    IF IsSome(ret) /\ Unwrap(ret) <= 0 /\ trader \in DOMAIN um
    THEN [should_ban |-> TRUE, telegram_id |-> Some(um[trader].telegram_id)]
    ELSE [should_ban |-> FALSE, telegram_id |-> None]
\* process_sell_trade, the match on the returned row: (should_ban,
\* telegram_id) from the new balance and the user_mappings lookup.
SellDecision(ret, um, trader) ==
    IF IsSome(ret) /\ Unwrap(ret) = 0 /\ trader \in DOMAIN um
    THEN [should_ban |-> TRUE, telegram_id |-> Some(um[trader].telegram_id)]
    ELSE [should_ban |-> FALSE, telegram_id |-> None]

\* get_user_subject_shares: the stored amount, 0 when there is no row.
GetUserSubjectShares(tr, trader, subject) ==
    IF <<trader, subject>> \in DOMAIN tr THEN tr[<<trader, subject>>] ELSE 0

\* ------------------------------------------------ trade processor ----
\* What processing one event leaves behind: the tables, the platform state,
\* the moderation actions issued, and how process_trade_event ended
\* ("ok" = Ok(()), "err" = Err(_), "panic" = the task panicked).
Outcome(tr, um, ch, a, r) ==
    [trades |-> tr, user_mappings |-> um, chat |-> ch, acts |-> a, res |-> r]

\* One call of the messaging platform and whether it answered success.
Action(kind, e, tid, ok) ==
    [kind |-> kind, trader |-> e.trader, subject |-> e.subject,
     telegram_id |-> tid, ok |-> ok]

\* UPDATE user_mappings SET is_banned = $b WHERE address = $1
SetBanned(um, trader, b) ==
    IF trader \in DOMAIN um THEN [um EXCEPT ![trader].is_banned = b] ELSE um

\* The fallible operations of process_trade_event, in program order. An
\* event is processed with one of them failing (if it is reached), or none.
NoFail == 0
FailLedgerWrite == 1
FailMappingLookup == 2
FailSharesLookup == 3
FailBotLookup == 4
FailPlatform == 5
FailBanUpdate == 6
Fails == NoFail..FailBanUpdate

\* A buy path that clears is_banned whether or not the platform accepted the
\* unbanChatMember request.
UnbanSyncWhateverAnswer(tr, um, ch, e, fail) ==
    LET tid == um[e.trader].telegram_id
        accepted == fail # FailPlatform /\ IsSome(ParseU64(tid))
        a == << Action("Unrestrict", e, tid, accepted) >>
        ch1 == IF accepted THEN ch \ {<<e.subject, tid>>} ELSE ch
    IN  IF fail = FailBanUpdate
        THEN Outcome(tr, um, ch1, a, "err")
        ELSE Outcome(tr, SetBanned(um, e.trader, FALSE), ch1, a, "ok")
\* sync.rs, buy path from the unbanChatMember request on: the request is
\* sent with the stored telegram_id; a transport error or a non-success
\* status (the platform rejects a user_id that is no number) is logged and
\* leaves is_banned alone; on success is_banned is set to false.
UnbanSync(tr, um, ch, e, fail) ==
    LET tid == um[e.trader].telegram_id
        accepted == fail # FailPlatform /\ IsSome(ParseU64(tid))
        a == << Action("Unrestrict", e, tid, accepted) >>
    IN  IF ~accepted
        THEN Outcome(tr, um, ch, a, "ok")
        ELSE IF fail = FailBanUpdate
        THEN Outcome(tr, um, ch \ {<<e.subject, tid>>}, a, "err")
        ELSE Outcome(tr, SetBanned(um, e.trader, FALSE),
                     ch \ {<<e.subject, tid>>}, a, "ok")

\* monad.rs / sui.rs, buy path from Bot::new on: telegram_id.parse().unwrap(),
\* then restrict_chat_member(.., permissions).await? and nothing after it.
UnrestrictChain(tr, um, ch, e, fail) ==
    LET tid == um[e.trader].telegram_id
        a == << Action("Unrestrict", e, tid, fail # FailPlatform) >>
    IN  IF ~IsSome(ParseU64(tid))
        THEN Outcome(tr, um, ch, << >>, "panic")
        ELSE IF fail = FailPlatform
        THEN Outcome(tr, um, ch, a, "err")
        ELSE Outcome(tr, um, ch \ {<<e.subject, tid>>}, a, "ok")

\* A sell path that marks the binding banned whether or not the platform
\* accepted the banChatMember request.
BanSyncWhateverAnswer(tr, um, ch, e, tid, fail) ==
    LET accepted == fail # FailPlatform /\ IsSome(ParseU64(tid))
        a == << Action("Restrict", e, tid, accepted) >>
        ch1 == IF accepted THEN ch \cup {<<e.subject, tid>>} ELSE ch
    IN  IF fail = FailBanUpdate
        THEN Outcome(tr, um, ch1, a, "err")
        ELSE Outcome(tr, SetBanned(um, e.trader, TRUE), ch1, a, "ok")
\* sync.rs, sell path from the banChatMember request on.
BanSync(tr, um, ch, e, tid, fail) ==
    LET accepted == fail # FailPlatform /\ IsSome(ParseU64(tid))
        a == << Action("Restrict", e, tid, accepted) >>
    IN  IF ~accepted
        THEN Outcome(tr, um, ch, a, "ok")
        ELSE IF fail = FailBanUpdate
        THEN Outcome(tr, um, ch \cup {<<e.subject, tid>>}, a, "err")
        ELSE Outcome(tr, SetBanned(um, e.trader, TRUE),
                     ch \cup {<<e.subject, tid>>}, a, "ok")

\* monad.rs / sui.rs, sell path from Bot::new on: parse().unwrap(),
\* restrict_chat_member(.., empty).await?, then UPDATE is_banned = true.
RestrictChain(tr, um, ch, e, tid, fail) ==
    LET a == << Action("Restrict", e, tid, fail # FailPlatform) >>
    IN  IF ~IsSome(ParseU64(tid))
        THEN Outcome(tr, um, ch, << >>, "panic")
        ELSE IF fail = FailPlatform
        THEN Outcome(tr, um, ch, a, "err")
        ELSE IF fail = FailBanUpdate
        THEN Outcome(tr, um, ch \cup {<<e.subject, tid>>}, a, "err")
        ELSE Outcome(tr, SetBanned(um, e.trader, TRUE),
                     ch \cup {<<e.subject, tid>>}, a, "ok")

\* A buy branch that unbans a banned trader whatever the balance.
ProcessBuyNoBalanceCheck(impl, tr, um, bots, ch, e, fail) ==
    LET tr1 == ProcessBuyTrade(tr, e.trader, e.subject, e.amount)
    IN  IF fail = FailLedgerWrite THEN Outcome(tr, um, ch, << >>, "err")
        ELSE IF fail = FailMappingLookup THEN Outcome(tr1, um, ch, << >>, "err")
        ELSE IF ~(e.trader \in DOMAIN um /\ um[e.trader].is_banned)
        THEN Outcome(tr1, um, ch, << >>, "ok")
        ELSE IF fail = FailSharesLookup THEN Outcome(tr1, um, ch, << >>, "err")
        ELSE IF fail = FailBotLookup THEN Outcome(tr1, um, ch, << >>, "err")
        ELSE IF e.subject \notin bots THEN Outcome(tr1, um, ch, << >>, "ok")
        ELSE IF impl = "sync" THEN UnbanSync(tr1, um, ch, e, fail)
        ELSE UnrestrictChain(tr1, um, ch, e, fail)
\* process_trade_event, the branch `if event.is_buy`.
ProcessBuy(impl, tr, um, bots, ch, e, fail) ==
    LET tr1 == ProcessBuyTrade(tr, e.trader, e.subject, e.amount)
        key == <<e.trader, e.subject>>
    IN  IF fail = FailLedgerWrite THEN Outcome(tr, um, ch, << >>, "err")
        ELSE IF fail = FailMappingLookup THEN Outcome(tr1, um, ch, << >>, "err")
        ELSE IF ~(e.trader \in DOMAIN um /\ um[e.trader].is_banned)
        THEN Outcome(tr1, um, ch, << >>, "ok")
        ELSE IF fail = FailSharesLookup THEN Outcome(tr1, um, ch, << >>, "err")
        ELSE IF ~(key \in DOMAIN tr1 /\ tr1[key] > 0)
        THEN Outcome(tr1, um, ch, << >>, "ok")
        ELSE IF fail = FailBotLookup THEN Outcome(tr1, um, ch, << >>, "err")
        ELSE IF e.subject \notin bots THEN Outcome(tr1, um, ch, << >>, "ok")
        ELSE IF impl = "sync" THEN UnbanSync(tr1, um, ch, e, fail)
        ELSE UnrestrictChain(tr1, um, ch, e, fail)

\* A sell branch that returns an error when the subject has no chat.
ProcessSellErrOnNoBot(impl, tr, um, bots, ch, e, fail) ==
    LET upd == SellUpdate(tr, e.trader, e.subject, e.amount)
        tr1 == upd.trades
        dec == SellDecision(upd.ret, um, e.trader)
    IN  IF fail = FailLedgerWrite THEN Outcome(tr, um, ch, << >>, "err")
        ELSE IF fail = FailMappingLookup /\ IsSome(upd.ret) /\ Unwrap(upd.ret) = 0
        THEN Outcome(tr1, um, ch, << >>, "err")
        ELSE IF ~(dec.should_ban /\ IsSome(dec.telegram_id))
        THEN Outcome(tr1, um, ch, << >>, "ok")
        ELSE IF fail = FailBotLookup THEN Outcome(tr1, um, ch, << >>, "err")
        ELSE IF e.subject \notin bots THEN Outcome(tr1, um, ch, << >>, "err")
        ELSE IF impl = "sync"
        THEN BanSync(tr1, um, ch, e, Unwrap(dec.telegram_id), fail)
        ELSE RestrictChain(tr1, um, ch, e, Unwrap(dec.telegram_id), fail)
\* process_trade_event, the else branch (a sell), process_sell_trade inlined.
ProcessSell(impl, tr, um, bots, ch, e, fail) ==
    LET upd == SellUpdate(tr, e.trader, e.subject, e.amount)
        tr1 == upd.trades
        dec == SellDecision(upd.ret, um, e.trader)
    IN  IF fail = FailLedgerWrite THEN Outcome(tr, um, ch, << >>, "err")
        ELSE IF fail = FailMappingLookup /\ IsSome(upd.ret) /\ Unwrap(upd.ret) = 0
        THEN Outcome(tr1, um, ch, << >>, "err")
        ELSE IF ~(dec.should_ban /\ IsSome(dec.telegram_id))
        THEN Outcome(tr1, um, ch, << >>, "ok")
        ELSE IF fail = FailBotLookup THEN Outcome(tr1, um, ch, << >>, "err")
        ELSE IF e.subject \notin bots THEN Outcome(tr1, um, ch, << >>, "ok")
        ELSE IF impl = "sync"
        THEN BanSync(tr1, um, ch, e, Unwrap(dec.telegram_id), fail)
        ELSE RestrictChain(tr1, um, ch, e, Unwrap(dec.telegram_id), fail)

\* A processor that drops an event of amount zero before anything is looked
\* at.
ProcessTradeEventSkipZero(impl, tr, um, bots, ch, e, fail) ==
    IF impl = "sui" /\ e.amount < 0 THEN Outcome(tr, um, ch, << >>, "err")
    ELSE IF e.amount = 0 THEN Outcome(tr, um, ch, << >>, "ok")
    ELSE IF e.is_buy THEN ProcessBuy(impl, tr, um, bots, ch, e, fail)
    ELSE ProcessSell(impl, tr, um, bots, ch, e, fail)
\* process_trade_event of the three implementations. A sui event carries its
\* amount as a string; amount.parse::<u64>() fails on one that is no
\* unsigned number (modelled as a negative amount) before anything is written.
ProcessTradeEvent(impl, tr, um, bots, ch, e, fail) ==
    IF impl = "sui" /\ e.amount < 0 THEN Outcome(tr, um, ch, << >>, "err")
    ELSE IF e.is_buy THEN ProcessBuy(impl, tr, um, bots, ch, e, fail)
    ELSE ProcessSell(impl, tr, um, bots, ch, e, fail)

\* ------------------------------------------------ identity binder ----
\* Addresses a verify request can claim or a signature can recover to.
Addresses == Traders \cup {"cc"}
\* verify_signature: Ok(address) for a recoverable signature, Err otherwise.
RecoverErr == "RecoverErr"
\* A `user` field that Address::from_str rejects.
Malformed == "malformed"

\* sharesBalance(subject, user) read from the contract.
SharesBalance(sb, subject, user) ==
    IF <<user, subject>> \in DOMAIN sb THEN sb[<<user, subject>>] ELSE 0

\* An insert that replaces the row of an address already bound.
InsertMappingOverwrite(um, address, telegram_id) ==
    Put(um, address, [telegram_id |-> telegram_id, is_banned |-> FALSE])
\* INSERT INTO user_mappings (address, telegram_id) ... ON CONFLICT (address)
\* DO NOTHING; is_banned takes its default, false.
InsertMapping(um, address, telegram_id) ==
    IF address \in DOMAIN um THEN um
    ELSE Put(um, address, [telegram_id |-> telegram_id, is_banned |-> FALSE])

\* The fallible operations of handle_verify, in program order.
VFailBotLookup == 1
VFailInsert == 2
VFailBalance == 3
VFailPlatform == 4
VFails == NoFail..VFailPlatform

\* The HTTP response of handle_verify and what the request left behind;
\* res = "panic" when the handler panicked before answering.
Response(um, ch, a, res, status, success) ==
    [user_mappings |-> um, chat |-> ch, acts |-> a, res |-> res,
     status |-> status, success |-> success]

\* An admission that reads the holding from the local ledger instead of the
\* contract.
OwnSharesFromLedger(um, sb, subject, req, vfail) ==
    IF req.recovered = RecoverErr
    THEN [user_mappings |-> um, res |-> "ok", own |-> FALSE]
    ELSE IF req.user = Malformed
    THEN [user_mappings |-> um, res |-> "panic", own |-> FALSE]
    ELSE IF req.user # req.recovered
    THEN [user_mappings |-> um, res |-> "ok", own |-> FALSE]
    ELSE LET um1 == IF vfail = VFailInsert THEN um
                    ELSE InsertMapping(um, req.user, req.challenge)
         IN  IF vfail = VFailBalance
             THEN [user_mappings |-> um1, res |-> "panic", own |-> FALSE]
             ELSE [user_mappings |-> um1, res |-> "ok",
                   own |-> GetUserSubjectShares(trades, req.user, subject)
                             # 0]
\* handle_verify, `let own_shares = match verify_signature(..)`: the
\* mapping table after it and own_shares, or a panic.
OwnShares(um, sb, subject, req, vfail) ==
    IF req.recovered = RecoverErr
    THEN [user_mappings |-> um, res |-> "ok", own |-> FALSE]
    ELSE IF req.user = Malformed
    THEN [user_mappings |-> um, res |-> "panic", own |-> FALSE]
    ELSE IF req.user # req.recovered
    THEN [user_mappings |-> um, res |-> "ok", own |-> FALSE]
    ELSE LET um1 == IF vfail = VFailInsert THEN um
                    ELSE InsertMapping(um, req.user, req.challenge)
         IN  IF vfail = VFailBalance
             THEN [user_mappings |-> um1, res |-> "panic", own |-> FALSE]
             ELSE [user_mappings |-> um1, res |-> "ok",
                   own |-> SharesBalance(sb, subject, req.user) # 0]

\* A handler that marks the address not banned once the platform accepted
\* the new permissions.
HandleVerifyClearsBan(um, bots, ch, sb, req, vfail) ==
    IF vfail = VFailBotLookup THEN Response(um, ch, << >>, "ok", 500, FALSE)
    ELSE IF req.subject \notin bots THEN Response(um, ch, << >>, "ok", 400, FALSE)
    ELSE LET o == OwnShares(um, sb, req.subject, req, vfail)
             a == << [kind |-> "Unrestrict", trader |-> req.user,
                      subject |-> req.subject, telegram_id |-> req.challenge,
                      ok |-> vfail # VFailPlatform] >>
         IN  IF o.res = "panic"
             THEN Response(o.user_mappings, ch, << >>, "panic", 0, FALSE)
             ELSE IF ~o.own
             THEN Response(o.user_mappings, ch, << >>, "ok", 200, TRUE)
             ELSE IF ~IsSome(ParseU64(req.challenge))
             THEN Response(o.user_mappings, ch, << >>, "panic", 0, FALSE)
             ELSE IF vfail = VFailPlatform
             THEN Response(o.user_mappings, ch, a, "ok", 500, FALSE)
             ELSE Response(SetBanned(o.user_mappings, req.user, FALSE),
                           ch \ {<<req.subject, req.challenge>>}, a, "ok",
                           200, TRUE)
\* handle_verify. req = [challenge, subject (the chat_id's subject), user,
\* recovered (what the signature recovers to)].
HandleVerify(um, bots, ch, sb, req, vfail) ==
    IF vfail = VFailBotLookup THEN Response(um, ch, << >>, "ok", 500, FALSE)
    ELSE IF req.subject \notin bots THEN Response(um, ch, << >>, "ok", 400, FALSE)
    ELSE LET o == OwnShares(um, sb, req.subject, req, vfail)
             a == << [kind |-> "Unrestrict", trader |-> req.user,
                      subject |-> req.subject, telegram_id |-> req.challenge,
                      ok |-> vfail # VFailPlatform] >>
         IN  IF o.res = "panic"
             THEN Response(o.user_mappings, ch, << >>, "panic", 0, FALSE)
             ELSE IF ~o.own
             THEN Response(o.user_mappings, ch, << >>, "ok", 200, TRUE)
             ELSE IF ~IsSome(ParseU64(req.challenge))
             THEN Response(o.user_mappings, ch, << >>, "panic", 0, FALSE)
             ELSE IF vfail = VFailPlatform
             THEN Response(o.user_mappings, ch, a, "ok", 500, FALSE)
             ELSE Response(o.user_mappings,
                           ch \ {<<req.subject, req.challenge>>}, a, "ok",
                           200, TRUE)

Requests ==
    [challenge : TelegramIds, subject : Subjects,
     user : Traders \cup {Malformed},
     recovered : Addresses \cup {RecoverErr}]

\* The requests whose signature recovers to the claimed address: the only
\* ones after which handle_verify writes to the store.
BindingRequests == {req \in Requests : req.user = req.recovered}

\* ------------------------------------------------------- the chain ----
\* The contract's state after it emitted event e (a Trade is emitted with
\* the balance change it records).
Emit(sb, e) ==
    LET k == <<e.trader, e.subject>>
    IN  IF e.amount < 0 THEN sb
        ELSE [sb EXCEPT ![k] = IF e.is_buy THEN @ + e.amount ELSE @ - e.amount]

\* The contract emits no sell above the seller's balance (and, to bound the
\* model, no buy that takes a holding above MaxHolding).
CanEmit(sb, e) ==
    \/ e.amount < 0
    \/ e.is_buy /\ sb[<<e.trader, e.subject>>] + e.amount <= MaxHolding
    \/ ~e.is_buy /\ e.amount <= sb[<<e.trader, e.subject>>]

EmptyTable == << >>

\* A step that injects a failure spends one of the MaxFaults.
Fault(failed) ==
    /\ failed => faults < MaxFaults
    /\ faults' = IF failed THEN faults + 1 ELSE faults

\* What the last step was and how it ended; for a verify request also the
\* HTTP response and what the signature check of the request found.
StepResult(op, res, status, success, sig) ==
    [op |-> op, res |-> res, status |-> status, success |-> success,
     sig |-> sig]

\* How handle_verify's match on verify_signature classifies a request.
SigCheck(req) ==
    IF req.recovered = RecoverErr THEN "recover_err"
    ELSE IF req.user = Malformed THEN "malformed"
    ELSE IF req.user # req.recovered THEN "mismatch"
    ELSE "valid"

EventKind(e) == IF e.is_buy THEN "buy" ELSE "sell"

\* ------------------------------------- processor runs (SpecProc) ----
\* Share amounts of the events handed directly to the processor.
ProcAmounts == {0, 1, 3, 5, 10}

ProcEvents(impl) ==
    [block : {StartBlock}, trader : Traders, subject : Subjects,
     is_buy : BOOLEAN,
     amount : ProcAmounts \cup (IF impl = "sui" THEN {-1} ELSE {})]

\* What every run starts from outside the ledger, the bindings and the chat
\* table: the chain at the start block, no engine position yet.
InitLocals ==
    /\ engine \in Engines
    /\ chain_head = StartBlock
    /\ chain_events = << >>
    /\ sync_status = None
    /\ chat = {}
    /\ last_synced_block = StartBlock
    /\ cursor_str = None
    /\ current_block = StartBlock
    /\ end_block = StartBlock
    /\ batch = << >>
    /\ next_cursor = None
    /\ handed = {}
    /\ applied = << >>
    /\ nsteps = 0
    /\ acts = << >>
    /\ result = StepResult("init", "ok", 0, FALSE, "")
    /\ restarts = 0
    /\ faults = 0
    /\ verifies = 0
    /\ sig_call = None
    /\ started = {}
    /\ inflight = << >>
    /\ own_shares = None

\* What every specification but the two-subject runs starts from: an empty
\* database and the subject with or without a chat.
InitCommon ==
    /\ InitLocals
    /\ trades = EmptyTable
    /\ user_mappings = EmptyTable
    /\ telegram_bots \in SUBSET Subjects

InitProc ==
    /\ InitCommon
    /\ shares_balance \in [Traders \X Subjects -> 0..MaxPre]
    /\ pc = "proc"

\* Whether injecting failure `fail` changes how e is processed: the failing
\* operation is one the processing of e reaches.
Reached(impl, tr, um, bots, ch, e, fail) ==
    \/ fail = NoFail
    \/ ProcessTradeEvent(impl, tr, um, bots, ch, e, fail)
         # ProcessTradeEvent(impl, tr, um, bots, ch, e, NoFail)

\* The contract emits e and the processor is handed it, once.
ApplyEvent(e, fail) ==
    /\ Fault(fail # NoFail)
    /\ pc = "proc"
    /\ nsteps + verifies + faults' < MaxApplied
    /\ CanEmit(shares_balance, e)
    /\ Reached(engine, trades, user_mappings, telegram_bots, chat, e, fail)
    /\ LET o == ProcessTradeEvent(engine, trades, user_mappings,
                                  telegram_bots, chat, e, fail)
       IN  /\ trades' = o.trades
           /\ user_mappings' = o.user_mappings
           /\ chat' = o.chat
           /\ acts' = o.acts
           /\ result' = StepResult(EventKind(e), o.res, 0, FALSE, "")
           /\ pc' = IF o.res = "panic" THEN "dead" ELSE pc
    /\ nsteps' = nsteps + 1
    /\ shares_balance' = Emit(shares_balance, e)
    /\ UNCHANGED << engine, sig_call, started, inflight, chain_head,
                    chain_events, sync_status,
                    telegram_bots, own_shares, last_synced_block, cursor_str,
                    current_block, end_block, batch, next_cursor, handed,
                    applied, restarts, verifies >>

\* Whether injecting failure `vfail` changes how req is served: the failing
\* operation is one the handling of req reaches.
VReached(um, bots, ch, sb, req, vfail) ==
    \/ vfail = NoFail
    \/ HandleVerify(um, bots, ch, sb, req, vfail)
         # HandleVerify(um, bots, ch, sb, req, NoFail)

\* One verify request is served (POST /verify-signature).
Verify(req, vfail) ==
    /\ Fault(vfail # NoFail)
    /\ pc \notin {"dead", "aborted"}
    /\ verifies < (IF pc = "bind" THEN MaxBind ELSE MaxVerify)
    /\ pc = "proc" => nsteps + verifies + faults' < MaxApplied
    /\ VReached(user_mappings, telegram_bots, chat, shares_balance, req, vfail)
    /\ LET r == HandleVerify(user_mappings, telegram_bots, chat,
                             shares_balance, req, vfail)
       IN  /\ user_mappings' = r.user_mappings
           /\ chat' = r.chat
           /\ acts' = r.acts
           /\ result' = StepResult("verify", r.res, r.status, r.success,
                                    SigCheck(req))
    /\ verifies' = verifies + 1
    /\ UNCHANGED << engine, sig_call, started, inflight, chainVars, trades,
                    sync_status, telegram_bots, own_shares,
                    engVars, handed, applied, nsteps, restarts >>

NextProc ==
    \/ \E e \in ProcEvents(engine), fail \in Fails : ApplyEvent(e, fail)
    \/ \E req \in BindingRequests, vfail \in VFails : Verify(req, vfail)

SpecProc == InitProc /\ [][NextProc]_vars

\* ------------------------------ two-subject runs (SpecSubjects) ----
\* A second subject, with a chat of its own.
TwoSubjects == Subjects \cup {"dd"}
SubjectEvents ==
    [block : {StartBlock}, trader : Traders, subject : TwoSubjects,
     is_buy : BOOLEAN, amount : {1}]

\* The state after the holdings of the chain were synced and every trader
\* was bound by a verify request: a ledger row per pair with the chain's
\* balance, a binding per trader, nobody restricted.
InitSubjects ==
    /\ InitLocals
    /\ shares_balance \in [Traders \X TwoSubjects -> 0..MaxPre]
    /\ trades = shares_balance
    /\ user_mappings = [t \in Traders |->
                          [telegram_id |-> "42", is_banned |-> FALSE]]
    /\ telegram_bots \in SUBSET TwoSubjects
    /\ pc = "proc"

\* Events of either subject are handed to the processor, nothing fails.
NextSubjects == \E e \in SubjectEvents : ApplyEvent(e, NoFail)

SpecSubjects == InitSubjects /\ [][NextSubjects]_vars

\* --------------------------------- zero-amount runs (SpecZero) ----
\* Events that move no share.
ZeroEvents ==
    [block : {StartBlock}, trader : Traders, subject : Subjects,
     is_buy : BOOLEAN, amount : {0}]

\* States the processor runs reach before such an event arrives: the pair
\* with no ledger row or a row of any holding, the trader unbound or bound,
\* marked banned (which takes a sell on a row and a chat) or not.
InitZero ==
    /\ InitLocals
    /\ shares_balance \in [Traders \X Subjects -> 0..MaxPre]
    /\ trades \in {EmptyTable}
                  \cup [Traders \X Subjects -> 0..MaxPre]
    /\ user_mappings \in {EmptyTable}
                  \cup [Traders -> [telegram_id : {"42"},
                                    is_banned : BOOLEAN]]
    /\ \A t \in DOMAIN user_mappings :
          user_mappings[t].is_banned
          => trades # EmptyTable /\ telegram_bots = Subjects
    /\ telegram_bots \in SUBSET Subjects
    /\ pc = "proc"

NextZero == \E e \in ZeroEvents, fail \in Fails : ApplyEvent(e, fail)

SpecZero == InitZero /\ [][NextZero]_vars

\* ------------------------------- platform-failure runs (SpecRetry) ----
\* Events of the pair, among them ones that move no share, so that a sell
\* can follow a sell that emptied the row.
RetryEvents ==
    [block : {StartBlock}, trader : Traders, subject : Subjects,
     is_buy : BOOLEAN, amount : {0, 1}]
\* The only failure of these runs is the platform call's.
RetryFails == {NoFail, FailPlatform}

\* The state after the holdings were synced and the trader was bound or
\* not; nobody is restricted yet.
InitRetry ==
    /\ InitLocals
    /\ shares_balance \in [Traders \X Subjects -> 0..MaxPre]
    /\ trades \in {EmptyTable} \cup [Traders \X Subjects -> 0..MaxPre]
    /\ user_mappings \in {EmptyTable}
                  \cup [Traders -> [telegram_id : {"42"},
                                    is_banned : {FALSE}]]
    /\ telegram_bots \in SUBSET Subjects
    /\ pc = "proc"

NextRetry ==
    \E e \in RetryEvents, fail \in RetryFails : ApplyEvent(e, fail)

SpecRetry == InitRetry /\ [][NextRetry]_vars

\* ------------------------------ requests of bound addresses (SpecRebind) ----
\* A verify request of any kind is served in a state the processor runs
\* reach, so that it meets rows that exist and rows marked banned.
NextRebind == \E req \in Requests, vfail \in VFails : Verify(req, vfail)

SpecRebind == InitZero /\ [][NextRebind]_vars

\* --------------------- a request beside the processor (SpecRace) ----
\* handle_verify runs on the HTTP server's tasks and the sync engine on its
\* own task, so the processing of an event can fall between two awaits of
\* the handler. The requests of these runs carry a valid signature and a
\* numeric identity; nothing fails.
RaceRequests ==
    {req \in BindingRequests : IsSome(ParseU64(req.challenge))}
RaceEvents ==
    [block : {StartBlock}, trader : Traders, subject : Subjects,
     is_buy : BOOLEAN, amount : {1}]

\* The ledger is in step with the contract, the trader is bound and not
\* restricted, the subject has its chat.
InitRace ==
    /\ InitLocals
    /\ shares_balance \in [Traders \X Subjects -> 0..MaxPre]
    /\ trades = shares_balance
    /\ user_mappings = [t \in Traders |->
                          [telegram_id |-> "42", is_banned |-> FALSE]]
    /\ telegram_bots = Subjects
    /\ pc = "proc"

\* handle_verify up to `if own_shares`: the bot lookup, the signature check,
\* the insert and the balance read. With own_shares false the handler
\* answers at once; with own_shares true the platform call is still to come.
VerifyRead(req) ==
    /\ pc = "proc" /\ own_shares = None
    /\ verifies < MaxVerify
    /\ nsteps + verifies + faults < MaxApplied
    /\ req.subject \in telegram_bots
    /\ LET o == OwnShares(user_mappings, shares_balance, req.subject, req,
                          NoFail)
       IN  /\ user_mappings' = o.user_mappings
           /\ own_shares' = IF o.own THEN Some(req) ELSE None
           /\ result' = IF o.own
                        THEN StepResult("verify_read", "ok", 0, FALSE,
                                        SigCheck(req))
                        ELSE StepResult("verify", "ok", 200, TRUE,
                                        SigCheck(req))
    /\ acts' = << >>
    /\ verifies' = verifies + 1
    /\ UNCHANGED faults
    /\ UNCHANGED << engine, sig_call, started, inflight, chainVars, trades,
                    sync_status, telegram_bots, chat, engVars, handed,
                    applied, nsteps, restarts >>

\* handle_verify from `if own_shares` on: restrict_chat_member with the
\* member permissions, then the answer.
VerifySend ==
    /\ pc = "proc" /\ own_shares # None
    /\ LET req == Unwrap(own_shares)
       IN  /\ acts' = << [kind |-> "Unrestrict", trader |-> req.user,
                          subject |-> req.subject,
                          telegram_id |-> req.challenge, ok |-> TRUE] >>
           /\ chat' = chat \ {<<req.subject, req.challenge>>}
           /\ result' = StepResult("verify", "ok", 200, TRUE, SigCheck(req))
    /\ own_shares' = None
    /\ UNCHANGED faults
    /\ UNCHANGED << engine, sig_call, started, inflight, chainVars, dbVars,
                    telegram_bots, engVars, handed, applied, nsteps,
                    restarts, verifies >>

NextRace ==
    \/ \E e \in RaceEvents : ApplyEvent(e, NoFail)
    \/ \E req \in RaceRequests : VerifyRead(req)
    \/ VerifySend

SpecRace == InitRace /\ [][NextRace]_vars

\* ------------------------------------------ binder runs (SpecBind) ----
\* Verify requests of every kind served one after the other, on a store
\* with no binding yet.
InitBind ==
    /\ InitCommon
    /\ shares_balance \in [Traders \X Subjects -> 0..MaxPre]
    /\ pc = "bind"

NextBind ==
    \E req \in Requests, vfail \in VFails : Verify(req, vfail)

SpecBind == InitBind /\ [][NextBind]_vars

\* ------------------------------------------- signature check (SpecSig) ----
\* The four verify_signature functions of the repository.
Backends == {"signature", "utils", "monad", "sui"}
\* Challenge texts: messaging identities and texts that read as an address.
Challenges == TelegramIds \cup Addresses
\* What SuiAddress::from_str makes of a challenge text.
ParseSuiAddress(challenge) ==
    IF challenge \in Addresses THEN Some(challenge) ELSE None

\* Signature strings by how they decode: hex of 65 bytes (130 characters, no
\* base64 for want of padding), hex of 64 bytes (128 characters, which is
\* base64 as well), base64 that is no hex, and text that is neither.
Encodings == {"hex65", "hex64", "base64", "text"}
HexDecodes(enc) == enc \in {"hex65", "hex64"}
HexLen(enc) == IF enc = "hex65" THEN 65 ELSE 64
Base64Decodes(enc) == enc \in {"base64", "hex64"}

\* The bytes are no signature of any key.
NoKey == "nokey"
\* The address of a key nobody holds: what ECDSA recovery yields for a
\* signature over another message than the one it was made for.
Stray == "stray"
\* A signature string: its encoding, the address whose key made it and the
\* message it was made for.
Signatures ==
    [enc : Encodings, signer : Addresses \cup {NoKey}, message : Challenges]

\* The address under whose key the bytes of sig verify for message m, if any.
Signs(sig, m) ==
    IF sig.signer = NoKey THEN None
    ELSE IF sig.message = m THEN Some(sig.signer)
    ELSE Some(Stray)

SigOk(address, form) == [ok |-> TRUE, address |-> address, form |-> form]
SigErr(msg) == [ok |-> FALSE, address |-> NoKey, form |-> msg]

\* verify_signature of routes/signature.rs, block_chain/utils.rs and
\* MonadBlockchain: hex::decode, the 65 byte check, hash_message(challenge),
\* Signature::recover. form is how the address is returned: as an Address,
\* or by MonadBlockchain as hex text without 0x.
VerifySignatureEcdsa(challenge, sig, form) ==
    IF ~HexDecodes(sig.enc) THEN SigErr("Invalid signature hex")
    ELSE IF HexLen(sig.enc) # 65 THEN SigErr("Signature must be 65 bytes")
    ELSE IF ~IsSome(Signs(sig, challenge)) THEN SigErr("Recovery failed")
    ELSE SigOk(Unwrap(Signs(sig, challenge)), form)

\* SuiBlockchain::verify_signature: BASE64_STANDARD.decode(signature), whose
\* bytes are not used again, SuiAddress::from_str(challenge), and
\* Ok(format!("0x{}", sui_address)).
VerifySignatureSui(challenge, sig) ==
    IF ~Base64Decodes(sig.enc) THEN SigErr("cannot decode signature")
    ELSE IF ~IsSome(ParseSuiAddress(challenge))
    THEN SigErr("invalid address format")
    ELSE SigOk(Unwrap(ParseSuiAddress(challenge)), "0x")

VerifySignature(backend, challenge, sig) ==
    IF backend = "sui" THEN VerifySignatureSui(challenge, sig)
    ELSE IF backend = "monad" THEN VerifySignatureEcdsa(challenge, sig, "hex")
    ELSE VerifySignatureEcdsa(challenge, sig, "Address")

InitSig ==
    /\ InitCommon
    /\ shares_balance = [k \in Traders \X Subjects |-> 0]
    /\ pc = "sig"

\* One call of verify_signature.
VerifySignatureCall(backend, challenge, sig) ==
    /\ pc = "sig"
    /\ sig_call' = Some([backend |-> backend, challenge |-> challenge,
                         signature |-> sig,
                         ret |-> VerifySignature(backend, challenge, sig)])
    /\ UNCHANGED << engine, started, inflight, chainVars, dbVars,
                    telegram_bots, own_shares, chat,
                    engVars, handed, applied, nsteps, acts, result, restarts,
                    faults, verifies >>

NextSig ==
    \E backend \in Backends, challenge \in Challenges, sig \in Signatures :
        VerifySignatureCall(backend, challenge, sig)

SpecSig == InitSig /\ [][NextSig]_vars

\* -------------------------------------------- watermark store ----
\* A sync_status row. chain_type is set by the writes that name a chain and
\* left unset by those that do not.
Row(chain_type, block_number, metadata) ==
    [chain_type |-> chain_type, last_synced_block |-> block_number,
     metadata |-> metadata]
\* ORDER BY id DESC LIMIT 1: the newest row of a table that has one.
Newest(ss) == ss[Len(ss)]

\* A get_last_synced_block that inserts start_block whether or not a row
\* exists.
GetLastSyncedBlockReinsert(ss, start_block) ==
    [sync_status |-> << Row(None, start_block, None) >>,
     block |-> start_block]
\* A get_last_synced_block that prefers start_block when it lies above the
\* stored block.
GetLastSyncedBlockPreferStart(ss, start_block) ==
    IF ss # << >> /\ Newest(ss).last_synced_block >= start_block
    THEN [sync_status |-> ss, block |-> Newest(ss).last_synced_block]
    ELSE [sync_status |-> << Row(None, start_block, None) >>,
          block |-> start_block]
\* get_last_synced_block: the newest sync_status row, whichever it is,
\* inserted with start_block when the table is empty. Returns the table and
\* the block.
GetLastSyncedBlock(ss, start_block) ==
    IF ss # << >>
    THEN [sync_status |-> ss, block |-> Newest(ss).last_synced_block]
    ELSE [sync_status |-> Append(ss, Row(None, start_block, None)),
          block |-> start_block]

\* update_last_synced_block: UPDATE sync_status SET last_synced_block = $1
\* on the newest row (no row: nothing to update).
UpdateLastSyncedBlock(ss, block_number) ==
    IF ss # << >>
    THEN [ss EXCEPT ![Len(ss)].last_synced_block = block_number]
    ELSE ss

\* The rows of the table keyed by chain.
ChainRows(ss, chain) == {i \in DOMAIN ss : ss[i].chain_type = Some(chain)}

\* update_last_synced_block_with_metadata: the numeric position and the
\* cursor JSON are stored together in the chain's row.
UpdateLastSyncedBlockWithMetadata(ss, block_number, metadata, chain) ==
    LET row == Row(Some(chain), block_number, Some(metadata))
    IN  IF ChainRows(ss, chain) = {} THEN Append(ss, row)
        ELSE [ss EXCEPT ![CHOOSE i \in ChainRows(ss, chain) : TRUE] = row]

\* get_last_synced_block_with_metadata: the chain's row (inserted with
\* start_block and no metadata when there is none), its numeric position and
\* its stored cursor JSON.
GetLastSyncedBlockWithMetadata(ss, start_block, chain) ==
    LET ss1 == IF ChainRows(ss, chain) = {}
               THEN Append(ss, Row(Some(chain), start_block, None))
               ELSE ss
        row == ss1[CHOOSE i \in ChainRows(ss1, chain) : TRUE]
    IN  [sync_status |-> ss1, block |-> row.last_synced_block,
         metadata |-> row.metadata]

\* u64::from_str_radix(&next_cursor.tx_digest[0..16], 16).unwrap_or(0) of the
\* event with index i: digests are hashes, in no order.
TxDigestHash(i) == (i * 5) % 7

\* ------------------------------------------- store runs (SpecStore) ----
\* Block numbers passed to the watermark functions.
StoreBlocks == 0..(MaxHead + 1)

\* A call of a watermark function and its argument.
StoreResult(op, arg) ==
    [op |-> op, res |-> "ok", status |-> 0, success |-> FALSE, sig |-> "",
     arg |-> arg]

InitStore ==
    /\ InitCommon
    /\ shares_balance = [k \in Traders \X Subjects |-> 0]
    /\ pc = "store"

\* get_last_synced_block(pool, start_block); last_synced_block takes what
\* it returns.
StoreGet(start_block) ==
    /\ pc = "store"
    /\ LET r == GetLastSyncedBlock(sync_status, start_block)
       IN  /\ sync_status' = r.sync_status
           /\ last_synced_block' = r.block
    /\ result' = StoreResult("get_last_synced_block", start_block)
    /\ UNCHANGED << engine, sig_call, started, inflight, chainVars, trades,
                    user_mappings, telegram_bots, own_shares, chat, pc, cursor_str,
                    current_block, end_block, batch, next_cursor, handed,
                    applied, nsteps, acts, restarts, faults, verifies >>

\* update_last_synced_block(pool, block_number).
StoreUpdate(block_number) ==
    /\ pc = "store"
    /\ sync_status' = UpdateLastSyncedBlock(sync_status, block_number)
    /\ result' = StoreResult("update_last_synced_block", block_number)
    /\ UNCHANGED << engine, sig_call, started, inflight, chainVars, trades,
                    user_mappings, telegram_bots, own_shares, chat, pc,
                    last_synced_block, cursor_str, current_block, end_block,
                    batch, next_cursor, handed, applied, nsteps, acts,
                    restarts, faults, verifies >>

NextStore ==
    \/ \E start_block \in StoreBlocks : StoreGet(start_block)
    \/ \E block_number \in StoreBlocks : StoreUpdate(block_number)

SpecStore == InitStore /\ [][NextStore]_vars

\* ---------------------------------------------------- sync engine ----
\* A range query that leaves out the events of block `to`.
RECURSIVE EventsInRangeExclusive(_, _, _, _)
EventsInRangeExclusive(evs, i, from, to) ==
    IF i > Len(evs) THEN << >>
    ELSE IF evs[i].block >= from /\ evs[i].block < to
    THEN << i >> \o EventsInRangeExclusive(evs, i + 1, from, to)
    ELSE EventsInRangeExclusive(evs, i + 1, from, to)
\* Indices of the chain's events in blocks from..to, both inclusive
\* (from_block(last_synced_block).to_block(end_block)), in emission order.
RECURSIVE EventsInRange(_, _, _, _)
EventsInRange(evs, i, from, to) ==
    IF i > Len(evs) THEN << >>
    ELSE IF evs[i].block >= from /\ evs[i].block <= to
    THEN << i >> \o EventsInRange(evs, i + 1, from, to)
    ELSE EventsInRange(evs, i + 1, from, to)

\* A page query that starts at the cursor's own event.
QueryEventsInclusive(evs, cursor, limit) ==
    LET first == IF IsSome(cursor) THEN Unwrap(cursor) ELSE 1
        lastIdx == Min(Len(evs), first + limit - 1)
        data == [j \in 1..(IF lastIdx >= first THEN lastIdx - first + 1 ELSE 0)
                   |-> first + j - 1]
    IN  [data |-> data,
         nextCursor |-> IF data # << >> THEN Some(data[Len(data)]) ELSE cursor,
         hasNextPage |-> lastIdx < Len(evs)]
\* suix_queryEvents(cursor, limit), ascending: the events after the cursor,
\* at most `limit` of them; nextCursor is the last returned event's id, or
\* the given cursor when the page is empty; hasNextPage tells of more.
QueryEvents(evs, cursor, limit) ==
    LET first == IF IsSome(cursor) THEN Unwrap(cursor) + 1 ELSE 1
        lastIdx == Min(Len(evs), first + limit - 1)
        data == [j \in 1..(IF lastIdx >= first THEN lastIdx - first + 1 ELSE 0)
                   |-> first + j - 1]
    IN  [data |-> data,
         nextCursor |-> IF data # << >> THEN Some(data[Len(data)]) ELSE cursor,
         hasNextPage |-> lastIdx < Len(evs)]

EngineStep(op, res) == StepResult(op, res, 0, FALSE, "")

\* The amount field of an event whose parsedJson is no SuiTradeEvent (a
\* field is missing or has another type).
Undecodable == -2
\* serde_json::from_value::<SuiEventPage>: Ok when every element of data
\* deserializes, Err when one does not.
PageDeserializes(evs, data) ==
    \A i \in DOMAIN data : evs[data[i]].amount # Undecodable

\* Share amounts of the events the chain emits.
ChainAmounts(impl) == {1} \cup (IF impl = "sui" THEN {-1} ELSE {})

Init ==
    /\ InitCommon
    /\ telegram_bots = Subjects
    /\ shares_balance = [k \in Traders \X Subjects |-> 0]
    /\ pc = "start"

\* The chain grows by one block, which holds at most one Trade event.
MineBlock(evs) ==
    /\ chain_head < MaxHead
    /\ chain_head' = chain_head + 1
    /\ Len(evs) <= 1
    /\ \A i \in DOMAIN evs : CanEmit(shares_balance, evs[i])
    /\ chain_events' = chain_events \o evs
    /\ shares_balance' = IF evs = << >> THEN shares_balance
                         ELSE Emit(shares_balance, evs[1])
    /\ UNCHANGED faults
    /\ UNCHANGED << engine, sig_call, started, inflight, dbVars,
                    telegram_bots, own_shares, chat, engVars, handed,
                    applied, nsteps, acts, result, restarts, verifies >>

NewEvents(impl, block) ==
    {<< >>} \cup
    {<< e >> : e \in [block : {block}, trader : Traders, subject : Subjects,
                      is_buy : BOOLEAN, amount : ChainAmounts(impl)]}

\* A start that takes up at the operator's start position, whatever the
\* table holds.
StartupAtStartBlock(ok) ==
    /\ Fault(~ok)
    /\ pc = "start"
    /\ pc' = IF ok THEN "loop" ELSE "aborted"
    /\ sync_status' = IF ok /\ sync_status = << >>
                      THEN << Row(None, StartBlock, None) >>
                      ELSE sync_status
    /\ last_synced_block' = StartBlock
    /\ cursor_str' = None
    /\ acts' = << >>
    /\ result' = EngineStep("engine", IF ok THEN "ok" ELSE "err")
    /\ UNCHANGED << engine, sig_call, started, inflight, chainVars, trades,
                    user_mappings, telegram_bots, own_shares, chat, current_block,
                    end_block, batch, next_cursor, handed, applied, nsteps,
                    restarts, verifies >>
\* sync_events up to the loop: the watermark is read (and bootstrapped).
\* A storage error ends the engine before its loop starts.
Startup(ok) ==
    /\ Fault(~ok)
    /\ pc = "start"
    /\ IF ~ok
       THEN /\ pc' = "aborted"
            /\ UNCHANGED << sync_status, last_synced_block, cursor_str >>
       ELSE IF engine = "sui"
       THEN LET r == GetLastSyncedBlockWithMetadata(sync_status, 0, engine)
            IN  /\ sync_status' = r.sync_status
                /\ last_synced_block' = r.block
                /\ cursor_str' = r.metadata
                /\ pc' = "loop"
       ELSE LET r == GetLastSyncedBlock(sync_status, StartBlock)
            IN  /\ sync_status' = r.sync_status
                /\ last_synced_block' = r.block
                /\ cursor_str' = None
                /\ pc' = "loop"
    /\ acts' = << >>
    /\ result' = EngineStep("engine", IF ok THEN "ok" ELSE "err")
    /\ UNCHANGED << engine, sig_call, started, inflight, chainVars, trades,
                    user_mappings, telegram_bots, own_shares,
                    chat, current_block, end_block, batch, next_cursor,
                    handed, applied, nsteps, restarts, verifies >>

\* A loop top that treats a caught-up engine like a failed height read.
FetchHeightBackoffWhenCaughtUp(ok) ==
    /\ Fault(~ok)
    /\ pc = "loop" /\ engine # "sui"
    /\ IF ~ok \/ last_synced_block >= chain_head
       THEN /\ pc' = "backoff"
            /\ UNCHANGED << current_block, end_block >>
       ELSE /\ current_block' = chain_head
            /\ end_block' = Min(last_synced_block + BLOCK_BATCH_SIZE,
                                chain_head)
            /\ pc' = "fetch"
    /\ acts' = << >>
    /\ result' = EngineStep("engine", IF ok THEN "ok" ELSE "err")
    /\ UNCHANGED << engine, sig_call, started, inflight, chainVars, dbVars,
                    telegram_bots, own_shares, chat, last_synced_block, cursor_str,
                    batch, next_cursor, handed, applied, nsteps, restarts,
                    verifies >>
\* A loop top that takes the whole distance to the head as one range.
FetchHeightToHead(ok) ==
    /\ Fault(~ok)
    /\ pc = "loop" /\ engine # "sui"
    /\ IF ~ok
       THEN /\ pc' = "backoff"
            /\ UNCHANGED << current_block, end_block >>
       ELSE IF last_synced_block >= chain_head
            THEN /\ pc' = "idle_wait"
                 /\ UNCHANGED << current_block, end_block >>
            ELSE /\ current_block' = chain_head
                 /\ end_block' = chain_head
                 /\ pc' = "fetch"
    /\ acts' = << >>
    /\ result' = EngineStep("engine", IF ok THEN "ok" ELSE "err")
    /\ UNCHANGED << engine, sig_call, started, inflight, chainVars, dbVars,
                    telegram_bots, own_shares, chat, last_synced_block, cursor_str,
                    batch, next_cursor, handed, applied, nsteps, restarts,
                    verifies >>
\* Range engines, loop top: provider.get_block_number(), the caught-up test
\* and end_block.
FetchHeight(ok) ==
    /\ Fault(~ok)
    /\ pc = "loop" /\ engine # "sui"
    /\ IF ~ok
       THEN /\ pc' = "backoff"
            /\ UNCHANGED << current_block, end_block >>
       ELSE IF last_synced_block >= chain_head
            THEN /\ pc' = "idle_wait"
                 /\ UNCHANGED << current_block, end_block >>
            ELSE /\ current_block' = chain_head
                 /\ end_block' = Min(last_synced_block + BLOCK_BATCH_SIZE,
                                     chain_head)
                 /\ pc' = "fetch"
    /\ acts' = << >>
    /\ result' = EngineStep("engine", IF ok THEN "ok" ELSE "err")
    /\ UNCHANGED << engine, sig_call, started, inflight, chainVars, dbVars,
                    telegram_bots, own_shares, chat,
                    last_synced_block, cursor_str, batch, next_cursor, handed,
                    applied, nsteps, restarts, verifies >>

\* A filter.query() whose failure branch moves on to the next range.
FetchEventsSkipOnError(ok) ==
    /\ Fault(~ok)
    /\ pc = "fetch"
    /\ IF ~ok
       THEN /\ pc' = "backoff"
            /\ last_synced_block' = end_block
            /\ current_block' = StartBlock
            /\ end_block' = StartBlock
            /\ UNCHANGED << batch, inflight >>
       ELSE /\ batch' = EventsInRange(chain_events, 1, last_synced_block,
                                      end_block)
            /\ inflight' = batch'
            /\ pc' = IF batch' = << >> THEN "advance" ELSE "process"
            /\ UNCHANGED << current_block, end_block, last_synced_block >>
    /\ acts' = << >>
    /\ result' = EngineStep("engine", IF ok THEN "ok" ELSE "err")
    /\ UNCHANGED << engine, sig_call, started, chainVars, dbVars,
                    telegram_bots, own_shares, chat,
                    cursor_str, next_cursor, handed, applied, nsteps,
                    restarts, verifies >>
\* Range engines: filter.query() over last_synced_block..end_block.
FetchEvents(ok) ==
    /\ Fault(~ok)
    /\ pc = "fetch"
    /\ IF ~ok
       THEN /\ pc' = "backoff"
            /\ current_block' = StartBlock
            /\ end_block' = StartBlock
            /\ UNCHANGED << batch, inflight >>
       ELSE /\ batch' = EventsInRange(chain_events, 1, last_synced_block,
                                      end_block)
            /\ inflight' = batch'
            /\ pc' = IF batch' = << >> THEN "advance" ELSE "process"
            /\ UNCHANGED << current_block, end_block >>
    /\ acts' = << >>
    /\ result' = EngineStep("engine", IF ok THEN "ok" ELSE "err")
    /\ UNCHANGED << engine, sig_call, started, chainVars, dbVars,
                    telegram_bots, own_shares, chat,
                    last_synced_block, cursor_str, next_cursor, handed,
                    applied, nsteps, restarts, verifies >>

\* Cursor engine: get_events(cursor_str.clone(), 100); the request fails, or
\* the response is deserialized as one SuiEventPage.
FetchPage(ok) ==
    /\ Fault(~ok)
    /\ pc = "loop" /\ engine = "sui"
    /\ LET page == QueryEvents(chain_events, cursor_str, PAGE_LIMIT)
           got == ok /\ PageDeserializes(chain_events, page.data)
       IN  /\ IF ~got
              THEN /\ pc' = "backoff"
                   /\ UNCHANGED << batch, next_cursor, inflight >>
              ELSE /\ batch' = page.data
                   /\ inflight' = page.data
                   /\ next_cursor' = page.nextCursor
                   /\ pc' = IF page.data = << >> THEN "advance"
                            ELSE "process"
           /\ result' = EngineStep("engine", IF got THEN "ok" ELSE "err")
    /\ acts' = << >>
    /\ UNCHANGED << engine, sig_call, started, chainVars, dbVars,
                    telegram_bots, own_shares, chat,
                    last_synced_block, cursor_str, current_block, end_block,
                    handed, applied, nsteps, restarts, verifies >>

\* `for event in events`: the next event of the batch is handed to
\* process_trade_event; an Err is logged and the loop goes on, a panic ends
\* the task.
ProcessEvent(fail) ==
    /\ Fault(fail # NoFail)
    /\ pc = "process"
    /\ LET e == chain_events[Head(batch)]
           o == ProcessTradeEvent(engine, trades, user_mappings,
                                  telegram_bots, chat, e, fail)
       IN  /\ Reached(engine, trades, user_mappings, telegram_bots, chat, e,
                      fail)
           /\ trades' = o.trades
           /\ user_mappings' = o.user_mappings
           /\ chat' = o.chat
           /\ acts' = o.acts
           /\ result' = EngineStep(EventKind(e), o.res)
           /\ pc' = IF o.res = "panic" THEN "dead"
                    ELSE IF Tail(batch) = << >> THEN "advance"
                    ELSE "process"
           /\ handed' = handed \cup {<< Head(batch), o.res >>}
    /\ batch' = Tail(batch)
    /\ UNCHANGED << engine, sig_call, started, inflight, chainVars,
                    sync_status, telegram_bots, own_shares,
                    last_synced_block, cursor_str, current_block, end_block,
                    next_cursor, applied, nsteps, restarts, verifies >>

\* Range engines, after the batch: update_last_synced_block(end_block); the
\* in-memory position follows only a successful write.
AdvanceWatermark(ok) ==
    /\ Fault(~ok)
    /\ pc = "advance" /\ engine # "sui"
    /\ IF ok
       THEN /\ sync_status' = UpdateLastSyncedBlock(sync_status, end_block)
            /\ last_synced_block' = end_block
       ELSE UNCHANGED << sync_status, last_synced_block >>
    /\ pc' = "loop"
    /\ current_block' = StartBlock
    /\ end_block' = StartBlock
    /\ acts' = << >>
    /\ inflight' = << >>
    /\ result' = EngineStep("engine", IF ok THEN "ok" ELSE "err")
    /\ UNCHANGED << engine, sig_call, started, chainVars, trades,
                    user_mappings, telegram_bots, own_shares,
                    chat, cursor_str, batch, next_cursor, handed, applied,
                    nsteps, restarts, verifies >>

\* Cursor engine, after the page: cursor_str takes the page's nextCursor,
\* then update_last_synced_block_with_metadata is attempted; with no
\* nextCursor the engine waits for new events.
AdvanceCursor(ok) ==
    /\ Fault(~ok)
    /\ pc = "advance" /\ engine = "sui"
    /\ IF IsSome(next_cursor)
       THEN /\ cursor_str' = next_cursor
            /\ sync_status' =
                 IF ok
                 THEN UpdateLastSyncedBlockWithMetadata(sync_status,
                          TxDigestHash(Unwrap(next_cursor)),
                          Unwrap(next_cursor), engine)
                 ELSE sync_status
            /\ pc' = "loop"
            /\ result' = EngineStep("engine", IF ok THEN "ok" ELSE "err")
       ELSE /\ ok
            /\ UNCHANGED << cursor_str, sync_status >>
            /\ pc' = "idle_wait"
            /\ result' = EngineStep("engine", "ok")
    /\ acts' = << >>
    /\ inflight' = << >>
    /\ next_cursor' = None
    /\ UNCHANGED << engine, sig_call, started, chainVars, trades,
                    user_mappings, telegram_bots, own_shares,
                    chat, last_synced_block, current_block, end_block, batch,
                    handed, applied, nsteps, restarts, verifies >>

\* The sleep after a failed fetch, or the wait for new blocks, ends.
Wake ==
    /\ pc \in {"backoff", "idle_wait"}
    /\ pc' = "loop"
    /\ acts' = << >>
    /\ result' = EngineStep("engine", "ok")
    /\ UNCHANGED faults
    /\ UNCHANGED << engine, sig_call, started, inflight, chainVars, dbVars,
                    telegram_bots, own_shares, chat,
                    last_synced_block, cursor_str, current_block, end_block,
                    batch, next_cursor, handed, applied, nsteps, restarts,
                    verifies >>

\* The process is stopped at any point and started again: the tables and
\* the platform keep their state, the engine's locals are lost.
Restart ==
    /\ Fault(TRUE)
    /\ pc # "start"
    /\ restarts' = restarts + 1
    /\ pc' = "start"
    /\ last_synced_block' = StartBlock
    /\ cursor_str' = None
    /\ current_block' = StartBlock
    /\ end_block' = StartBlock
    /\ batch' = << >>
    /\ next_cursor' = None
    /\ acts' = << >>
    /\ result' = EngineStep("engine", "ok")
    /\ UNCHANGED << engine, sig_call, started, inflight, chainVars, dbVars,
                    telegram_bots, own_shares, chat, handed,
                    applied, nsteps, verifies >>

Next ==
    \/ \E evs \in NewEvents(engine, chain_head + 1) : MineBlock(evs)
    \/ \E ok \in BOOLEAN : Startup(ok)
    \/ \E ok \in BOOLEAN : FetchHeight(ok)
    \/ \E ok \in BOOLEAN : FetchEvents(ok)
    \/ \E ok \in BOOLEAN : FetchPage(ok)
    \/ \E fail \in Fails : ProcessEvent(fail)
    \/ \E ok \in BOOLEAN : AdvanceWatermark(ok)
    \/ \E ok \in BOOLEAN : AdvanceCursor(ok)
    \/ Wake
    \/ Restart
    \/ \E req \in BindingRequests, vfail \in VFails : Verify(req, vfail)

Spec == Init /\ [][Next]_vars

\* ------------------------------------- long-range runs (SpecRange) ----
\* Chain heads a range engine finds when it has been away for a while:
\* less than, exactly and more than one or two batches ahead.
RangeHeads ==
    {1, 2, BLOCK_BATCH_SIZE, BLOCK_BATCH_SIZE + 1, 2 * BLOCK_BATCH_SIZE + 1,
     2 * BLOCK_BATCH_SIZE + 2}

InitRange == Init /\ engine # "sui"

\* The chain grows to height h by blocks that hold no Trade event.
GrowChain(h) ==
    /\ h > chain_head
    /\ chain_head' = h
    /\ UNCHANGED faults
    /\ UNCHANGED << engine, sig_call, started, inflight, chain_events,
                    shares_balance, dbVars, telegram_bots, own_shares, chat, engVars,
                    handed, applied, nsteps, acts, result, restarts,
                    verifies >>

NextRange ==
    \/ \E h \in RangeHeads : GrowChain(h)
    \/ \E ok \in BOOLEAN : Startup(ok)
    \/ \E ok \in BOOLEAN : FetchHeight(ok)
    \/ \E ok \in BOOLEAN : FetchEvents(ok)
    \/ \E ok \in BOOLEAN : AdvanceWatermark(ok)
    \/ Wake
    \/ Restart

SpecRange == InitRange /\ [][NextRange]_vars

\* ------------------------------ undecodable-event runs (SpecDecode) ----
\* What a block of the cursor chain can hold: nothing, or one event whose
\* amount is a number, is no number, or whose parsedJson does not decode.
DecodeAmounts == {1, -1, Undecodable}
NewDecodeEvents(block) ==
    {<< >>} \cup
    {<< e >> : e \in [block : {block}, trader : Traders, subject : Subjects,
                      is_buy : BOOLEAN, amount : DecodeAmounts]}

InitDecode == Init /\ engine = "sui"

\* The cursor engine's own steps, none of which fails for a reason other
\* than the content of the page.
EngineDecode ==
    \/ Startup(TRUE)
    \/ FetchPage(TRUE)
    \/ ProcessEvent(NoFail)
    \/ AdvanceCursor(TRUE)
    \/ Wake

NextDecode ==
    \/ \E evs \in NewDecodeEvents(chain_head + 1) : MineBlock(evs)
    \/ Startup(TRUE)
    \/ FetchPage(TRUE)
    \/ ProcessEvent(NoFail)
    \/ AdvanceCursor(TRUE)
    \/ Wake

\* The engine task keeps running: its sleeps end and its next statement is
\* executed.
SpecDecode == InitDecode /\ [][NextDecode]_vars /\ WF_vars(EngineDecode)

\* ------------------------------------- fair engine runs (SpecLive) ----
\* The statements of a range engine's task; a failure is one of the
\* MaxFaults disruptions, so none of them fails for ever.
EngineLive ==
    \/ Startup(TRUE)
    \/ \E ok \in BOOLEAN : FetchHeight(ok)
    \/ \E ok \in BOOLEAN : FetchEvents(ok)
    \/ \E fail \in Fails : ProcessEvent(fail)
    \/ \E ok \in BOOLEAN : AdvanceWatermark(ok)
    \/ Wake

InitLive == Init /\ engine # "sui"

NextLive ==
    \/ \E evs \in NewEvents(engine, chain_head + 1) : MineBlock(evs)
    \/ Startup(TRUE)
    \/ \E ok \in BOOLEAN : FetchHeight(ok)
    \/ \E ok \in BOOLEAN : FetchEvents(ok)
    \/ \E fail \in Fails : ProcessEvent(fail)
    \/ \E ok \in BOOLEAN : AdvanceWatermark(ok)
    \/ Wake
    \/ \E req \in BindingRequests, vfail \in VFails : Verify(req, vfail)

\* The engine task is scheduled: its sleeps end and its next statement runs.
SpecLive == InitLive /\ [][NextLive]_vars /\ WF_vars(EngineLive)

\* ---------------------------------------------- chain runs (SpecChains) ----
\* sync_trade_events of monad.rs: one task per chain, both on one database.
Chains == {"monad", "sui"}
\* The chains' addresses differ in format (20 and 32 bytes): a trader of
\* each.
ChainTrader(c) == IF c = "monad" THEN "aa" ELSE "cc"
ChainEvents(c) ==
    [block : {StartBlock}, trader : {ChainTrader(c)}, subject : Subjects,
     is_buy : BOOLEAN, amount : {1}]

InitChains ==
    /\ InitCommon
    /\ shares_balance = [k \in Traders \X Subjects |-> 0]
    /\ pc = "chains"

\* The engine task of chain c starts: sync_events reads its watermark.
ChainStartup(c) ==
    /\ pc = "chains" /\ c \notin started
    /\ started' = started \cup {c}
    /\ engine' = c
    /\ IF c = "sui"
       THEN LET r == GetLastSyncedBlockWithMetadata(sync_status, 0, c)
            IN  /\ sync_status' = r.sync_status
                /\ cursor_str' = r.metadata
                /\ UNCHANGED last_synced_block
       ELSE LET r == GetLastSyncedBlock(sync_status, StartBlock)
            IN  /\ sync_status' = r.sync_status
                /\ last_synced_block' = r.block
                /\ UNCHANGED cursor_str
    /\ acts' = << >>
    /\ result' = EngineStep("engine", "ok")
    /\ UNCHANGED << sig_call, inflight, chainVars, trades, user_mappings,
                    telegram_bots, own_shares, chat, pc, current_block, end_block, batch,
                    next_cursor, handed, applied, nsteps, restarts, faults,
                    verifies >>

\* One iteration of the monad engine with nothing failing: the head is read
\* (it has grown to h), the events of the range (evs) are processed and the
\* watermark is written.
MonadIteration(h, evs) ==
    /\ pc = "chains" /\ "monad" \in started
    /\ h >= chain_head /\ last_synced_block < h
    /\ Len(evs) <= 1
    /\ engine' = "monad"
    /\ chain_head' = h
    /\ LET o == IF evs = << >>
                THEN Outcome(trades, user_mappings, chat, << >>, "ok")
                ELSE ProcessTradeEvent("monad", trades, user_mappings,
                                       telegram_bots, chat, evs[1], NoFail)
           end == Min(last_synced_block + BLOCK_BATCH_SIZE, h)
       IN  /\ o.res # "panic"
           /\ trades' = o.trades
           /\ user_mappings' = o.user_mappings
           /\ chat' = o.chat
           /\ acts' = o.acts
           /\ sync_status' = UpdateLastSyncedBlock(sync_status, end)
           /\ last_synced_block' = end
    /\ result' = EngineStep("engine", "ok")
    /\ UNCHANGED << sig_call, started, inflight, chain_events, shares_balance,
                    telegram_bots, own_shares, pc, cursor_str, current_block, end_block,
                    batch, next_cursor, handed, applied, nsteps, restarts,
                    faults, verifies >>

\* One iteration of the sui engine with nothing failing: a page with one
\* event (the next after the cursor) is fetched and processed and the cursor
\* is stored.
SuiIteration(e) ==
    /\ pc = "chains" /\ "sui" \in started
    /\ LET n == IF IsSome(cursor_str) THEN Unwrap(cursor_str) + 1 ELSE 1
           o == ProcessTradeEvent("sui", trades, user_mappings,
                                  telegram_bots, chat, e, NoFail)
       IN  /\ n <= MaxHead
           /\ o.res # "panic"
           /\ trades' = o.trades
           /\ user_mappings' = o.user_mappings
           /\ chat' = o.chat
           /\ acts' = o.acts
           /\ cursor_str' = Some(n)
           /\ sync_status' = UpdateLastSyncedBlockWithMetadata(sync_status,
                                 TxDigestHash(n), n, "sui")
    /\ engine' = "sui"
    /\ result' = EngineStep("engine", "ok")
    /\ UNCHANGED << sig_call, started, inflight, chainVars, telegram_bots,
                    own_shares, pc,
                    last_synced_block, current_block, end_block, batch,
                    next_cursor, handed, applied, nsteps, restarts, faults,
                    verifies >>

NextChains ==
    \/ \E c \in Chains : ChainStartup(c)
    \/ \E h \in 0..MaxHead, e \in ChainEvents("monad") :
          MonadIteration(h, << >>) \/ MonadIteration(h, << e >>)
    \/ \E e \in ChainEvents("sui") : SuiIteration(e)

SpecChains == InitChains /\ [][NextChains]_vars

\* ------------------------------------------ ledger runs (SpecLedger) ----
\* Sequences of buys and sells applied in order, each once, through
\* process_buy_trade / process_sell_trade.
InitLedger ==
    /\ InitCommon
    /\ engine = "sync"
    /\ telegram_bots = {}
    /\ shares_balance = [k \in Traders \X Subjects |-> 0]
    /\ pc = "ledger"

LedgerOp(is_buy, t, s, a) ==
    [is_buy |-> is_buy, trader |-> t, subject |-> s, amount |-> a]

LedgerBuy(t, s, a) ==
    /\ pc = "ledger"
    /\ Len(applied) < MaxApplied
    /\ trades' = ProcessBuyTrade(trades, t, s, a)
    /\ applied' = Append(applied, LedgerOp(TRUE, t, s, a))
    /\ UNCHANGED faults
    /\ UNCHANGED << engine, sig_call, started, inflight, chainVars,
                    user_mappings, sync_status,
                    telegram_bots, own_shares, chat, engVars, handed, nsteps, acts,
                    result, restarts, verifies >>

LedgerSell(t, s, a) ==
    /\ pc = "ledger"
    /\ Len(applied) < MaxApplied
    /\ trades' = SellUpdate(trades, t, s, a).trades
    /\ applied' = Append(applied, LedgerOp(FALSE, t, s, a))
    /\ UNCHANGED faults
    /\ UNCHANGED << engine, sig_call, started, inflight, chainVars,
                    user_mappings, sync_status,
                    telegram_bots, own_shares, chat, engVars, handed, nsteps, acts,
                    result, restarts, verifies >>

\* The ledger part of processing one event.
ApplyOp(tr, op) ==
    IF op.is_buy
    THEN ProcessBuyTrade(tr, op.trader, op.subject, op.amount)
    ELSE SellUpdate(tr, op.trader, op.subject, op.amount).trades

\* `for event in events`: the ledger after the events of h, in order.
RECURSIVE ApplyAll(_, _)
ApplyAll(tr, h) ==
    IF h = << >> THEN tr ELSE ApplyAll(ApplyOp(tr, Head(h)), Tail(h))

\* The watermark write after a batch was lost (failed, or the process
\* stopped before it): the batch, the last operations from the k-th on, is
\* fetched again and processed a second time against the ledger as it is.
\* `batch` keeps the replayed operations.
LedgerReplay(k) ==
    /\ pc = "ledger"
    /\ k \in 1..Len(applied)
    /\ LET b == SubSeq(applied, k, Len(applied))
       IN  /\ Len(applied) + Len(b) <= MaxApplied
           /\ trades' = ApplyAll(trades, b)
           /\ applied' = applied \o b
           /\ batch' = b
    /\ pc' = "replayed"
    /\ UNCHANGED faults
    /\ UNCHANGED << engine, sig_call, started, inflight, chainVars,
                    user_mappings, sync_status,
                    telegram_bots, own_shares, chat, last_synced_block, cursor_str,
                    current_block, end_block, next_cursor, handed, nsteps,
                    acts, result, restarts, verifies >>

NextLedger ==
    \/ \E t \in Traders, s \in Subjects, a \in 0..MaxAmount : LedgerBuy(t, s, a)
    \/ \E t \in Traders, s \in Subjects, a \in 0..MaxAmount : LedgerSell(t, s, a)
    \/ \E k \in 1..MaxApplied : LedgerReplay(k)

SpecLedger == InitLedger /\ [][NextLedger]_vars

\* ---------------------------------------------- claims: processor ----
Key(t, s) == <<t, s>>
Shares(tr, t, s) == GetUserSubjectShares(tr, t, s)

\* t has a bound messaging identity that the platform accepts as a user id.
BoundNumeric(um, t) ==
    t \in DOMAIN um /\ IsSome(ParseU64(um[t].telegram_id))

\* a is exactly one platform call of the given kind for (t, s).
ExactlyOne(a, kind, t, s) ==
    /\ Len(a) = 1
    /\ a[1].kind = kind /\ a[1].trader = t /\ a[1].subject = s

AllAccepted(a) == \A i \in DOMAIN a : a[i].ok

\* This step is the processing of one event of the given kind that returned
\* Ok(()) and moved the balance of (t, s) from `from` to `to`.
EventStep(kind, t, s, from, to) ==
    /\ nsteps' = nsteps + 1
    /\ result'.op = kind /\ result'.res = "ok"
    /\ Key(t, s) \in DOMAIN trades /\ trades[Key(t, s)] = from
    /\ Key(t, s) \in DOMAIN trades' /\ trades'[Key(t, s)] = to

\* C3 (as claimed): for a bound trader and a configured chat, the sell that
\* takes the balance from 5 to 0 issues exactly one Restrict, the buy after it
\* that takes the balance from 0 to 3 issues exactly one Unrestrict, and a
\* further buy after that Unrestrict went through issues no Unrestrict.
C3_Step(t, s) ==
    /\ (EventStep("sell", t, s, 5, 0) /\ BoundNumeric(user_mappings, t)
          /\ s \in telegram_bots)
       => ExactlyOne(acts', "Restrict", t, s)
    /\ (EventStep("buy", t, s, 0, 3) /\ result.op = "sell"
          /\ ExactlyOne(acts, "Restrict", t, s) /\ AllAccepted(acts)
          /\ result.res = "ok")
       => ExactlyOne(acts', "Unrestrict", t, s)
    /\ (\E b \in 1..MaxHolding, c \in 1..MaxHolding :
            EventStep("buy", t, s, b, c)
          /\ result.op = "buy" /\ result.res = "ok"
          /\ ExactlyOne(acts, "Unrestrict", t, s) /\ AllAccepted(acts))
       => acts' = << >>
C3_RestrictOnceUnrestrictOnce ==
    [][\A t \in Traders, s \in Subjects : C3_Step(t, s)]_vars

\* C5 (as claimed): in a run without failures, with a bound trader and a
\* configured chat, the sell that takes the balance from 10 to 0 applies one
\* Restrict and leaves is_banned = true, and the buy that then takes the
\* balance from 0 to 1 while is_banned is true applies one Unrestrict and
\* leaves is_banned = false.
C5_Step(t, s) ==
    /\ (EventStep("sell", t, s, 10, 0) /\ faults' = faults
          /\ BoundNumeric(user_mappings, t) /\ s \in telegram_bots)
       => /\ ExactlyOne(acts', "Restrict", t, s) /\ AllAccepted(acts')
          /\ user_mappings'[t].is_banned
    /\ (EventStep("buy", t, s, 0, 1) /\ faults' = faults
          /\ BoundNumeric(user_mappings, t) /\ s \in telegram_bots
          /\ user_mappings[t].is_banned)
       => /\ ExactlyOne(acts', "Unrestrict", t, s) /\ AllAccepted(acts')
          /\ ~user_mappings'[t].is_banned
C5_ScenarioStates ==
    [][\A t \in Traders, s \in Subjects : C5_Step(t, s)]_vars

\* ------------------------------------------------- claims: ledger ----
\* Sum of the buy amounts minus sum of the sell amounts of (t, s) in h.
RECURSIVE Net(_, _, _)
Net(h, t, s) ==
    IF h = << >> THEN 0
    ELSE LET op == h[Len(h)]
             rest == Net(SubSeq(h, 1, Len(h) - 1), t, s)
         IN  IF op.trader = t /\ op.subject = s
             THEN IF op.is_buy THEN rest + op.amount ELSE rest - op.amount
             ELSE rest

\* The operations of (t, s) in h, in order.
OpsOf(h, t, s) == SelectSeq(h, LAMBDA op : op.trader = t /\ op.subject = s)

\* C2 (as claimed): after any sequence of buys and sells of a pair, in any
\* order, the stored share_amount is the buys minus the sells.
C2_AnyOrderLinear ==
    \A t \in Traders, s \in Subjects :
        Shares(trades, t, s) = Net(applied, t, s)

\* C2 (amended): after any sequence of buys and sells of a pair that starts
\* with a buy, the pair has a row and its share_amount is the buys minus the
\* sells.
C2_LinearAfterFirstBuy ==
    \A t \in Traders, s \in Subjects :
        (OpsOf(applied, t, s) # << >> /\ OpsOf(applied, t, s)[1].is_buy)
        => /\ Key(t, s) \in DOMAIN trades
           /\ trades[Key(t, s)] = Net(applied, t, s)

\* A buy, a larger sell and another buy have been applied: the stored amount
\* went below zero and came back.
C2_Witness ==
    /\ Len(applied) = 3
    /\ applied[1].is_buy /\ ~applied[2].is_buy /\ applied[3].is_buy
    /\ applied[1].amount < applied[2].amount
    /\ applied[3].amount > 0
    /\ Key("aa", "bb") \in DOMAIN trades
    /\ trades[Key("aa", "bb")] = 1

\* ------------------------------------------------ claims: binder ----
\* This step served a verify request.
VerifyStep == verifies' = verifies + 1

\* C4 (as claimed): a verify request whose signature recovers to another
\* address than the claimed one, or does not recover, gets an unsuccessful
\* answer, creates no user_mappings row and issues no Unrestrict.
C4_MismatchFailsClosed ==
    [][(VerifyStep /\ result'.sig \in {"mismatch", "recover_err"})
        => /\ ~result'.success
           /\ user_mappings' = user_mappings
           /\ \A i \in DOMAIN acts' : acts'[i].kind # "Unrestrict"]_vars

\* ------------------------------------------------ claims: engine ----
\* The persisted numeric position (a row exists).
Persisted == Unwrap(sync_status).last_synced_block

\* Event i has been handed to the processor and its processing has returned.
Handed(i) == \E h \in handed : h[1] = i

\* Event i lies in the range the persisted position covers.
Covered(i) ==
    /\ IsSome(sync_status)
    /\ IF engine = "sui"
       THEN /\ IsSome(Unwrap(sync_status).metadata)
            /\ i <= Unwrap(Unwrap(sync_status).metadata)
       ELSE chain_events[i].block <= Persisted

\* This step handed the head of the batch to the processor.
ProcessStep == pc = "process" /\ pc' # "start" /\ batch' # batch

\* C1: for the range engines, whatever fails and however often the process
\* restarts, no step takes the persisted last_synced_block to a smaller
\* value.
C1_WatermarkMonotonic ==
    [][(engine # "sui" /\ IsSome(sync_status))
        => /\ IsSome(sync_status')
           /\ Unwrap(sync_status').last_synced_block >= Persisted]_vars

\* A range engine was stopped after it had advanced the watermark and is
\* about to read it again.
C1_Witness ==
    /\ engine = "monad" /\ pc = "start" /\ restarts >= 1
    /\ IsSome(sync_status) /\ Persisted >= 1

\* C6 (as claimed): on both backends the position the next iteration fetches
\* from is the persisted one, also after a failed watermark write.
C6_PositionNotAhead ==
    (pc = "loop" /\ IsSome(sync_status))
    => IF engine = "sui"
       THEN cursor_str = Unwrap(sync_status).metadata
       ELSE last_synced_block = Persisted

\* C7: in no reachable state does the persisted position cover an event that
\* has not been handed to the processor, on either backend.
C7_CoveredEventsHanded ==
    \A i \in DOMAIN chain_events : Covered(i) => Handed(i)

\* The persisted position covers every event of the chain, one of which had
\* its processing end in a logged error.
C7_Witness ==
    /\ chain_events # << >>
    /\ \A i \in DOMAIN chain_events : Covered(i)
    /\ \E i \in DOMAIN chain_events : << i, "err" >> \in handed

\* C8: a step into the error backoff (failed height fetch or failed event
\* fetch) leaves the persisted watermark, the in-memory position and the
\* ledger as they were, and so does the backoff itself: the next fetch starts
\* from the same position.
C8_FetchFailureKeepsPosition ==
    [][/\ (pc # "backoff" /\ pc' = "backoff")
          => /\ sync_status' = sync_status
             /\ last_synced_block' = last_synced_block
             /\ cursor_str' = cursor_str
             /\ trades' = trades
       /\ (pc = "backoff" /\ pc' # "start")
          => /\ sync_status' = sync_status
             /\ last_synced_block' = last_synced_block
             /\ cursor_str' = cursor_str]_vars

\* The engine is in the error backoff after a failed fetch, with a watermark
\* it had advanced before and blocks still to fetch.
C8_Witness ==
    /\ pc = "backoff" /\ result.res = "err"
    /\ engine # "sui" /\ IsSome(sync_status)
    /\ last_synced_block >= 1 /\ last_synced_block = Persisted
    /\ chain_head > last_synced_block

\* C9 (as claimed): when the processing of an event fails, the rest of the
\* batch is still processed in order and the watermark write follows the
\* batch; and, in a run of a range engine whose only failure was that event's,
\* the failed event is not handed to the processor again.
C9_FailedEventNotRetried ==
    [][/\ (ProcessStep /\ result'.res = "err")
          => /\ batch' = Tail(batch)
             /\ pc' = IF Tail(batch) = << >> THEN "advance" ELSE "process"
       /\ (ProcessStep /\ engine # "sui" /\ faults = 1 /\ restarts = 0)
          => << Head(batch), "err" >> \notin handed]_vars

\* C10 (as claimed): once the loop has started, nothing makes the sync engine
\* terminate.
C10_EngineNeverDies == pc # "dead"

\* The event index a cursor stands at (0: before the first event).
CursorIndex(c) == IF IsSome(c) THEN Unwrap(c) ELSE 0

\* C11: on the cursor engine, a start reads the persisted cursor into
\* cursor_str, nothing but the page handling changes it before the fetch, and
\* a fetch returns the events right after cursor_str in order: none at or
\* before the cursor, none after it skipped.
C11_ResumeFromPersistedCursor ==
    [][engine = "sui" =>
        /\ (pc = "start" /\ pc' = "loop")
           => cursor_str' = Unwrap(sync_status').metadata
        /\ (pc = "loop" /\ pc' = "loop") => cursor_str' = cursor_str
        /\ (pc = "loop" /\ pc' \in {"process", "advance"})
           => /\ cursor_str' = cursor_str
              /\ \A j \in DOMAIN batch' : batch'[j] = CursorIndex(cursor_str) + j
              /\ Len(batch') = Min(PAGE_LIMIT,
                                   Len(chain_events) - CursorIndex(cursor_str))]_vars

\* After a restart the cursor engine has read the persisted cursor, which
\* stands at the first event, and has fetched the second event from it.
C11_Witness ==
    /\ engine = "sui" /\ restarts >= 1 /\ pc = "process"
    /\ IsSome(sync_status) /\ Unwrap(sync_status).metadata = Some(1)
    /\ cursor_str = Some(1) /\ batch = << 2 >>

\* C12 (as claimed): on the cursor engine no step takes the persisted numeric
\* position to a smaller value.
C12_SurrogateMonotonic ==
    [][(engine = "sui" /\ IsSome(sync_status))
        => /\ IsSome(sync_status')
           /\ Unwrap(sync_status').last_synced_block >= Persisted]_vars

\* --------------------------------------------- claims: ledger replay ----
\* The operations applied before the replayed batch was first processed.
BeforeBatch == SubSeq(applied, 1, Len(applied) - 2 * Len(batch))
\* The ledger before the batch, and after the batch was processed once.
LedgerBefore == ApplyAll(EmptyTable, BeforeBatch)
LedgerOnce == ApplyAll(LedgerBefore, batch)

\* C13 (as claimed): after a batch is processed a second time the ledger
\* differs from the once-applied ledger, and every pair holds its amount
\* from before the batch plus twice the batch's deltas.
C13_ReplayDoubles ==
    pc = "replayed"
    => /\ trades # LedgerOnce
       /\ \A t \in Traders, s \in Subjects :
            Shares(trades, t, s)
              = Shares(LedgerBefore, t, s) + 2 * Net(batch, t, s)

\* C13 (amended): for a pair that has a row before the batch, or whose first
\* operation in the batch is a buy, the replayed ledger holds the amount from
\* before the batch plus twice the batch's net delta, and it differs from the
\* once-applied amount exactly when that net delta is not zero.
C13_ReplayDoublesWithRow ==
    pc = "replayed"
    => \A t \in Traders, s \in Subjects :
         (\/ Key(t, s) \in DOMAIN LedgerBefore
          \/ /\ OpsOf(batch, t, s) # << >>
             /\ OpsOf(batch, t, s)[1].is_buy)
         => /\ Key(t, s) \in DOMAIN trades
            /\ trades[Key(t, s)]
                 = Shares(LedgerBefore, t, s) + 2 * Net(batch, t, s)
            /\ (trades[Key(t, s)] # LedgerOnce[Key(t, s)])
                 <=> (Net(batch, t, s) # 0)

\* A batch of a buy of 2 and a sell of 1 was processed twice on an empty
\* ledger: the stored amount is 2, not 1.
C13_Witness ==
    /\ pc = "replayed" /\ Len(batch) = 2 /\ Len(applied) = 4
    /\ batch[1].is_buy /\ batch[1].amount = 2
    /\ ~batch[2].is_buy /\ batch[2].amount = 1
    /\ trades[Key("aa", "bb")] = 2
    /\ LedgerOnce[Key("aa", "bb")] = 1

\* ------------------------------------ claims: moderation decisions ----
\* The step went on to the moderation call: the call was made, or the task
\* panicked on the way to it.
Decided == acts' # << >> \/ result'.res = "panic"

\* This step is the processing of event e with failure `fail` injected.
EventStepOf(e, fail) ==
    /\ nsteps' = nsteps + 1
    /\ result'.op = EventKind(e)
    /\ shares_balance' = Emit(shares_balance, e)
    /\ ApplyEvent(e, fail)

\* The pair of e has a ledger row that holds exactly zero.
RowIsZero(tr, e) ==
    Key(e.trader, e.subject) \in DOMAIN tr /\ tr[Key(e.trader, e.subject)] = 0

\* C14 (as claimed): with a configured chat and no failure, a sell reaches the
\* ban exactly when the pair's ledger balance after it is zero and the trader
\* is bound; a sell by an unbound trader, or one that leaves a non-zero
\* balance, issues no action and leaves user_mappings alone.
C14_BanIffZeroAndBound ==
    [][\A e \in ProcEvents(engine), fail \in Fails :
        (~e.is_buy /\ EventStepOf(e, fail))
        => /\ (fail = NoFail /\ e.amount >= 0 /\ e.subject \in telegram_bots)
              => (Decided <=> /\ Shares(trades', e.trader, e.subject) = 0
                              /\ e.trader \in DOMAIN user_mappings)
           /\ (\/ e.trader \notin DOMAIN user_mappings
               \/ Shares(trades', e.trader, e.subject) # 0)
              => (acts' = << >> /\ user_mappings' = user_mappings)]_vars

\* C14 (amended): the same, with the balance after the sell being that of an
\* existing ledger row: a sell for a pair with no row decides nothing.
C14_BanIffZeroRowAndBound ==
    [][\A e \in ProcEvents(engine), fail \in Fails :
        (~e.is_buy /\ EventStepOf(e, fail))
        => /\ (fail = NoFail /\ e.amount >= 0 /\ e.subject \in telegram_bots)
              => (Decided <=> /\ RowIsZero(trades', e)
                              /\ e.trader \in DOMAIN user_mappings)
           /\ (\/ e.trader \notin DOMAIN user_mappings
               \/ ~RowIsZero(trades', e))
              => (acts' = << >> /\ user_mappings' = user_mappings)]_vars

\* A sell has just taken a bound trader's row to zero and the Restrict was
\* issued and accepted.
C14_Witness ==
    /\ result.op = "sell" /\ result.res = "ok"
    /\ ExactlyOne(acts, "Restrict", "aa", "bb") /\ AllAccepted(acts)
    /\ RowIsZero(trades, [trader |-> "aa", subject |-> "bb"])
    /\ "aa" \in DOMAIN user_mappings /\ user_mappings["aa"].is_banned

\* t is bound and its binding is marked banned.
BoundBanned(um, t) == t \in DOMAIN um /\ um[t].is_banned

\* C15: with a configured chat and no failure, a buy reaches the Unrestrict
\* exactly when the trader's binding is marked is_banned and the pair's
\* ledger balance after the addition is above zero, and what it issues is one
\* Unrestrict for the pair; a buy by an unbound or not banned trader issues no
\* action, whatever fails.
C15_UnrestrictIffBannedAndPositive ==
    [][\A e \in ProcEvents(engine), fail \in Fails :
        (e.is_buy /\ EventStepOf(e, fail))
        => /\ (fail = NoFail /\ e.amount >= 0 /\ e.subject \in telegram_bots)
              => /\ Decided <=> /\ BoundBanned(user_mappings, e.trader)
                                /\ Shares(trades', e.trader, e.subject) > 0
                 /\ acts' # << >>
                    => ExactlyOne(acts', "Unrestrict", e.trader, e.subject)
           /\ ~BoundBanned(user_mappings, e.trader) => acts' = << >>]_vars

\* A buy has just taken a banned trader's balance above zero and the
\* Unrestrict was issued and accepted.
C15_Witness ==
    /\ result.op = "buy" /\ result.res = "ok"
    /\ ExactlyOne(acts, "Unrestrict", "aa", "bb") /\ AllAccepted(acts)
    /\ Shares(trades, "aa", "bb") > 0
    /\ "aa" \in DOMAIN user_mappings

\* This step issued a moderation action for address t that the platform
\* confirmed.
Confirmed(t) == \E i \in DOMAIN acts' : acts'[i].ok /\ acts'[i].trader = t

\* C16 (as claimed): after every step that ends without error and in which
\* the platform confirmed a moderation action for a bound address, the
\* binding's is_banned matches the action: true after a Restrict, false
\* after an Unrestrict, for sells, buys and verify requests alike.
C16_FlagMatchesAction ==
    [][result'.res = "ok"
        => \A i \in DOMAIN acts' :
             (acts'[i].ok /\ acts'[i].trader \in DOMAIN user_mappings')
             => user_mappings'[acts'[i].trader].is_banned
                  = (acts'[i].kind = "Restrict")]_vars

\* C17: is_banned of an existing binding changes only in a step in which the
\* platform confirmed a moderation action for that address; a step whose
\* platform call fails, or that makes none, leaves every is_banned as it was.
C17_FlagChangesOnlyOnConfirmedCall ==
    [][\A t \in DOMAIN user_mappings :
         /\ t \in DOMAIN user_mappings'
         /\ user_mappings'[t].is_banned # user_mappings[t].is_banned
            => Confirmed(t)]_vars

\* A sell has just had its Restrict confirmed and the binding is marked
\* banned.
C17_Witness ==
    /\ result.op = "sell" /\ result.res = "ok"
    /\ ExactlyOne(acts, "Restrict", "aa", "bb") /\ AllAccepted(acts)
    /\ "aa" \in DOMAIN user_mappings /\ user_mappings["aa"].is_banned

\* This step served verify request req with nothing failing.
VerifyStepOf(req) == VerifyStep /\ Verify(req, NoFail)

\* The admission decision for req: the signature recovers to the claimed
\* address and that address holds shares of the subject on chain.
Admitted(req) ==
    /\ req.recovered = req.user
    /\ SharesBalance(shares_balance, req.subject, req.user) > 0

\* C18 (as claimed): a verify request for a subject with a chat, with a
\* well-formed address and a numeric identity, served with nothing failing,
\* issues one Restrict for the claimed identity when the decision is negative
\* (signature invalid, address mismatch or balance 0) and one Unrestrict when
\* it is positive.
C18_RestrictOnNegativeUnrestrictOnPositive ==
    [][\A req \in Requests :
        (/\ VerifyStepOf(req)
         /\ req.subject \in telegram_bots
         /\ req.user # Malformed
         /\ IsSome(ParseU64(req.challenge)))
        => /\ ExactlyOne(acts', IF Admitted(req) THEN "Unrestrict"
                                ELSE "Restrict", req.user, req.subject)
           /\ acts'[1].telegram_id = req.challenge]_vars

\* ------------------------------------------- claims: signature check ----
\* The signature string of the call decodes as the backend expects: base64
\* for the Move-based backend, hex of 65 bytes for the others.
WellFormed(c) ==
    IF c.backend = "sui" THEN Base64Decodes(c.signature.enc)
    ELSE HexDecodes(c.signature.enc) /\ HexLen(c.signature.enc) = 65

\* C19 (as claimed): for every backend, verify_signature returns Ok(a) only
\* when the signature is well-formed and verifies over the challenge under
\* the key of address a; every other pair gets an error.
C19_OkOnlyForValidSignature ==
    (IsSome(sig_call) /\ Unwrap(sig_call).ret.ok)
    => LET c == Unwrap(sig_call)
       IN  /\ WellFormed(c)
           /\ Signs(c.signature, c.challenge) = Some(c.ret.address)

\* ------------------------------------------- claims: binding ----
\* C20: the binding of an address is first-write-wins: no verify request,
\* whatever identity it carries and however it ends, changes the identity
\* bound to an address or removes its row (the table holds one row per
\* address).
C20_FirstWriteWins ==
    [][\A a \in DOMAIN user_mappings :
         /\ a \in DOMAIN user_mappings'
         /\ user_mappings'[a].telegram_id = user_mappings[a].telegram_id]_vars

\* A second verify request with a valid signature for aa and identity 42 was
\* served (its Unrestrict went to 42) while aa stays bound to abc, the
\* identity of the first.
C20_Witness ==
    /\ verifies = 2
    /\ result.op = "verify" /\ result.sig = "valid" /\ result.success
    /\ ExactlyOne(acts, "Unrestrict", "aa", "bb")
    /\ acts[1].telegram_id = "42"
    /\ "aa" \in DOMAIN user_mappings
    /\ user_mappings["aa"].telegram_id = "abc"

\* ------------------------------------------- claims: sync runs ----
\* C21 (as claimed): whatever the chain emits within the contract's rules
\* (no sell above the seller's balance) and whatever fails or restarts, no
\* row of the ledger holds a share_amount below zero.
C21_LedgerNonNegative ==
    \A k \in DOMAIN trades : trades[k] >= 0

\* ------------------------------------------- claims: chain runs ----
\* What the engine of chain d reads back as its watermark.
WatermarkOf(ss, d) ==
    IF d = "sui" THEN {ss[i] : i \in ChainRows(ss, d)}
    ELSE IF ss = << >> THEN {}
    ELSE {Newest(ss).last_synced_block}
\* The ledger rows and the bindings of chain d's addresses.
LedgerOf(tr, d) ==
    {<<k, tr[k]>> : k \in {x \in DOMAIN tr : x[1] = ChainTrader(d)}}
BindingsOf(um, d) ==
    {<<a, um[a]>> : a \in {x \in DOMAIN um : x = ChainTrader(d)}}

\* C22 (as claimed): no step of one chain's engine changes the watermark, a
\* ledger row or an identity binding of the other chain.
C22_EngineWritesOwnChainOnly ==
    [][pc = "chains"
        => \A d \in Chains \ {engine'} :
             /\ d \in started
                => WatermarkOf(sync_status', d) = WatermarkOf(sync_status, d)
             /\ LedgerOf(trades', d) = LedgerOf(trades, d)
             /\ BindingsOf(user_mappings', d) = BindingsOf(user_mappings, d)]_vars

\* ------------------------------------------- claims: regaining access ----
\* The member bound to trader t is restricted in the chat of subject s.
Restricted(ch, um, t, s) ==
    t \in DOMAIN um /\ <<s, um[t].telegram_id>> \in ch

\* C23 (as claimed): when a bound trader who is restricted in a subject's
\* chat buys shares of that subject, the ledger balance of the pair is above
\* zero after the buy and nothing fails (the platform would accept the
\* call), the trader is no longer restricted in that chat after the buy,
\* whatever the trader traded in the other subject before.
C23_BuyLiftsRestriction ==
    [][\A e \in SubjectEvents :
        (/\ e.is_buy /\ EventStepOf(e, NoFail)
         /\ Restricted(chat, user_mappings, e.trader, e.subject)
         /\ Shares(trades', e.trader, e.subject) > 0)
        => ~Restricted(chat', user_mappings', e.trader, e.subject)]_vars

\* ------------------------------------------- claims: range engine ----
\* C24 (as claimed): in a run of a range engine with no failure and no
\* restart, no event is handed to the processor a second time (the fetched
\* ranges of consecutive iterations share no block), and every event the
\* persisted watermark covers has been handed.
C24_HandedExactlyOnce ==
    [][(engine # "sui" /\ faults' = 0 /\ restarts' = 0)
        => /\ ProcessStep => ~Handed(Head(batch))
           /\ (pc = "advance" /\ pc' = "loop")
              => \A i \in DOMAIN chain_events :
                   (StartBlock < chain_events[i].block
                    /\ chain_events[i].block <= Persisted') => Handed(i)]_vars

\* Every event of batch a is in batch b.
Within(a, b) == \A j \in DOMAIN a : \E k \in DOMAIN b : b[k] = a[j]

\* C25: a range engine that is stopped at any point and started again takes
\* up at the persisted watermark, and when an iteration was under way (its
\* batch fetched, its watermark write not reached) the next fetch starts at
\* that watermark and returns every event of that batch again; they are
\* then processed by the same loop as any batch.
C25_RestartRefetchesBatch ==
    [][engine # "sui"
        => /\ (pc = "start" /\ pc' = "loop")
              => last_synced_block' = Persisted'
           /\ (pc = "fetch" /\ pc' \in {"process", "advance"})
              => /\ last_synced_block = Persisted
                 /\ batch' = EventsInRange(chain_events, 1, Persisted,
                                           end_block)
                 /\ Within(inflight, batch')]_vars

\* After a restart in the middle of an iteration, the batch has been fetched
\* again and holds an event that had been handed to the processor before.
C25_Witness ==
    /\ engine # "sui" /\ restarts = 1 /\ pc = "process"
    /\ batch # << >> /\ Handed(Head(batch))
    /\ Persisted = StartBlock
    /\ chain_events[Head(batch)].block > StartBlock

\* ------------------------------------------- claims: watermark store ----
\* C26: get_last_synced_block returns start_block and stores it when the
\* table holds no watermark; on every other call it returns the stored
\* watermark and leaves the table as it is, whatever start_block is passed.
C26_StartBlockOnlyOnFirstRun ==
    [][\A start_block \in StoreBlocks :
        (result'.op = "get_last_synced_block" /\ StoreGet(start_block))
        => IF sync_status = << >>
           THEN /\ last_synced_block' = start_block
                /\ Len(sync_status') = 1
                /\ Newest(sync_status').last_synced_block = start_block
           ELSE /\ last_synced_block' = Newest(sync_status).last_synced_block
                /\ sync_status' = sync_status]_vars

\* A call that passed a start_block above the stored watermark has returned
\* the stored watermark.
C26_Witness ==
    /\ pc = "store" /\ result.op = "get_last_synced_block"
    /\ sync_status # << >>
    /\ result.arg > Newest(sync_status).last_synced_block
    /\ last_synced_block = Newest(sync_status).last_synced_block
    /\ last_synced_block > 0

\* C27: in a range engine every iteration that fetches takes end_block =
\* min(last_synced_block + 100, head) with the head it has just read and
\* queries no block above it; every change of the persisted watermark is an
\* increase by at least 1 and at most 100; and the persisted watermark never
\* lies above the chain head.
C27_BatchUpperBound ==
    [][engine # "sui"
        => /\ (pc = "loop" /\ pc' = "fetch")
              => /\ current_block' = chain_head
                 /\ end_block' = Min(last_synced_block + BLOCK_BATCH_SIZE,
                                     current_block')
           /\ (pc = "fetch" /\ pc' \in {"process", "advance"})
              => batch' = EventsInRange(chain_events, 1, last_synced_block,
                                        end_block)
           /\ (sync_status # << >> /\ Persisted' # Persisted)
              => /\ Persisted' - Persisted >= 1
                 /\ Persisted' - Persisted <= BLOCK_BATCH_SIZE
           /\ sync_status' # << >> => Persisted' <= chain_head']_vars

\* The head is more than a batch ahead and the watermark has advanced by a
\* full batch, no further.
C27_Witness ==
    /\ pc = "loop" /\ sync_status # << >>
    /\ Persisted = StartBlock + BLOCK_BATCH_SIZE
    /\ last_synced_block = Persisted
    /\ chain_head > Persisted + BLOCK_BATCH_SIZE

\* C28: a range engine whose height read succeeds with the watermark at or
\* above the head, and a cursor engine that receives a page with no next
\* cursor, fetch and process no event in that iteration, leave the
\* watermark, the ledger, the bindings and the chats as they are, and go to
\* the idle wait, not to the error backoff.
IdleFrame ==
    /\ batch' = << >>
    /\ handed' = handed
    /\ UNCHANGED << sync_status, last_synced_block, cursor_str, trades,
                    user_mappings, chat >>

C28_CaughtUpIdles ==
    [][/\ (/\ engine # "sui" /\ pc = "loop"
           /\ pc' \in {"fetch", "idle_wait", "backoff"}
           /\ result'.res = "ok"
           /\ last_synced_block >= chain_head)
          => pc' = "idle_wait" /\ IdleFrame
       /\ (/\ engine = "sui" /\ pc = "loop"
           /\ pc' \in {"process", "advance"}
           /\ next_cursor' = None)
          => pc' = "advance" /\ IdleFrame
       /\ (/\ engine = "sui" /\ pc = "advance"
           /\ pc' \notin {"advance", "start"}
           /\ next_cursor = None)
          => pc' = "idle_wait" /\ IdleFrame
       /\ (pc = "idle_wait" /\ pc' \notin {"idle_wait", "start"})
          => pc' = "loop" /\ IdleFrame]_vars

\* A range engine that has processed a buy and written a watermark waits
\* for new blocks.
C28_Witness ==
    /\ engine # "sui" /\ pc = "idle_wait"
    /\ sync_status # << >> /\ Persisted >= 1
    /\ last_synced_block = chain_head
    /\ \E k \in DOMAIN trades : trades[k] > 0

\* C29 (as claimed): an event of amount 0 leaves the balance of its pair as
\* it was, and with a configured chat and no failure a zero sell for a bound
\* trader whose balance is 0 reaches the Restrict, and a zero buy by a trader
\* marked banned whose balance is above 0 reaches the Unrestrict.
C29_ZeroAmountStillEvaluated ==
    [][\A e \in ZeroEvents, fail \in Fails :
        EventStepOf(e, fail)
        => /\ Shares(trades', e.trader, e.subject)
                = Shares(trades, e.trader, e.subject)
           /\ (/\ fail = NoFail /\ e.subject \in telegram_bots /\ ~e.is_buy
               /\ Shares(trades, e.trader, e.subject) = 0
               /\ e.trader \in DOMAIN user_mappings)
              => /\ Decided
                 /\ acts' # << >>
                    => ExactlyOne(acts', "Restrict", e.trader, e.subject)
           /\ (/\ fail = NoFail /\ e.subject \in telegram_bots /\ e.is_buy
               /\ Shares(trades, e.trader, e.subject) > 0
               /\ BoundBanned(user_mappings, e.trader))
              => /\ Decided
                 /\ acts' # << >>
                    => ExactlyOne(acts', "Unrestrict", e.trader, e.subject)]_vars

\* C29 (amended): the same, with the zero sell's balance of 0 being that of
\* an existing ledger row: a zero sell for a pair with no row decides
\* nothing.
C29_ZeroAmountEvaluatedOnRow ==
    [][\A e \in ZeroEvents, fail \in Fails :
        EventStepOf(e, fail)
        => /\ Shares(trades', e.trader, e.subject)
                = Shares(trades, e.trader, e.subject)
           /\ (/\ fail = NoFail /\ e.subject \in telegram_bots /\ ~e.is_buy
               /\ e.trader \in DOMAIN user_mappings)
              => /\ Decided <=> RowIsZero(trades, e)
                 /\ acts' # << >>
                    => ExactlyOne(acts', "Restrict", e.trader, e.subject)
           /\ (/\ fail = NoFail /\ e.subject \in telegram_bots /\ e.is_buy
               /\ Shares(trades, e.trader, e.subject) > 0
               /\ BoundBanned(user_mappings, e.trader))
              => /\ Decided
                 /\ acts' # << >>
                    => ExactlyOne(acts', "Unrestrict", e.trader, e.subject)]_vars

\* A zero sell on a row that holds zero has just issued a Restrict that the
\* platform accepted.
C29_Witness ==
    /\ result.op = "sell" /\ result.res = "ok" /\ nsteps = 1
    /\ ExactlyOne(acts, "Restrict", "aa", "bb") /\ AllAccepted(acts)
    /\ RowIsZero(trades, [trader |-> "aa", subject |-> "bb"])
    /\ user_mappings["aa"].is_banned

\* C30: when an event reaches a moderation decision (a sell that leaves a
\* bound trader's row at zero, a buy that leaves a banned trader's balance
\* above zero) for a subject with no chat configured, no platform call is
\* made, user_mappings stays as it is, the event returns Ok and the ledger
\* holds the event's change.
C30_UnboundSubjectIsNoOp ==
    [][\A e \in SubjectEvents :
        (EventStepOf(e, NoFail) /\ e.subject \notin telegram_bots
         /\ IF e.is_buy
            THEN /\ BoundBanned(user_mappings, e.trader)
                 /\ Shares(trades', e.trader, e.subject) > 0
            ELSE /\ RowIsZero(trades', e)
                 /\ e.trader \in DOMAIN user_mappings)
        => /\ acts' = << >>
           /\ chat' = chat
           /\ user_mappings' = user_mappings
           /\ result'.res = "ok"
           /\ trades' = IF e.is_buy
                        THEN ProcessBuyTrade(trades, e.trader, e.subject,
                                             e.amount)
                        ELSE SellUpdate(trades, e.trader, e.subject,
                                        e.amount).trades
           /\ trades' # trades]_vars

\* A sell has just left the bound trader's row of a subject without a chat
\* at zero: nothing was sent and the trader is not marked banned.
C30_Witness ==
    /\ result.op = "sell" /\ result.res = "ok" /\ acts = << >>
    /\ \E s \in TwoSubjects \ telegram_bots :
          /\ RowIsZero(trades, [trader |-> "aa", subject |-> s])
          /\ shares_balance[<<"aa", s>>] = 0
    /\ ~user_mappings["aa"].is_banned

\* C31: an event issues at most one platform call, so a failed call is not
\* repeated within the event, and a failed call leaves the binding as it
\* was; the next event of the pair that meets the same predicate issues the
\* call again: after a failed Restrict, a sell that leaves the row at zero
\* issues one Restrict, and after a failed Unrestrict, a buy that leaves the
\* balance above zero issues one Unrestrict.
FailedBefore(kind, e) ==
    ExactlyOne(acts, kind, e.trader, e.subject) /\ ~acts[1].ok

C31_FailedActionReissuedByNextEvent ==
    [][\A e \in RetryEvents, fail \in RetryFails :
        EventStepOf(e, fail)
        => /\ Len(acts') <= 1
           /\ (acts' # << >> /\ ~acts'[1].ok)
              => user_mappings' = user_mappings /\ chat' = chat
           /\ (/\ FailedBefore("Restrict", e) /\ ~e.is_buy
               /\ RowIsZero(trades', e))
              => ExactlyOne(acts', "Restrict", e.trader, e.subject)
           /\ (/\ FailedBefore("Unrestrict", e) /\ e.is_buy
               /\ Shares(trades', e.trader, e.subject) > 0)
              => ExactlyOne(acts', "Unrestrict", e.trader, e.subject)]_vars

\* The first event's Restrict failed on the platform and the second event,
\* a sell on the emptied row, has issued it again and was accepted.
C31_Witness ==
    /\ nsteps = 2 /\ faults = 1
    /\ result.op = "sell" /\ result.res = "ok"
    /\ ExactlyOne(acts, "Restrict", "aa", "bb") /\ AllAccepted(acts)
    /\ user_mappings["aa"].is_banned

\* C32: the cursor engine gets past every event of the chain, decodable or
\* not: once the chain holds an i-th event, the engine's cursor eventually
\* stands at or after it.
C32_CursorPassesEveryEvent ==
    \A i \in 1..MaxHead :
        (Len(chain_events) >= i)
            ~> (IsSome(cursor_str) /\ Unwrap(cursor_str) >= i)

\* C33: what a verify request with a valid signature is answered, and which
\* moderation call it makes, is determined by the contract's balance of the
\* claimed address and by nothing in the trades table: the Unrestrict is
\* reached exactly when that balance is above zero, it is the only call, and
\* the answer is success, whatever the ledger holds for the pair.
C33_AdmissionFromChainBalance ==
    [][\A req \in BindingRequests :
        (VerifyStepOf(req) /\ req.subject \in telegram_bots)
        => /\ Decided <=> SharesBalance(shares_balance, req.subject,
                                        req.user) > 0
           /\ acts' # << >>
              => /\ ExactlyOne(acts', "Unrestrict", req.user, req.subject)
                 /\ acts'[1].telegram_id = req.challenge
           /\ result'.res = "ok" => result'.success /\ result'.status = 200
           /\ trades' = trades]_vars

\* A request was admitted on the contract's balance while the ledger row of
\* the pair holds zero.
C33_Witness ==
    /\ result.op = "verify" /\ result.success
    /\ ExactlyOne(acts, "Unrestrict", "aa", "bb") /\ AllAccepted(acts)
    /\ RowIsZero(trades, [trader |-> "aa", subject |-> "bb"])
    /\ shares_balance[<<"aa", "bb">>] > 0

\* C34: serving a verify request, whatever the request and whatever fails,
\* leaves every row that user_mappings already holds as it is, its
\* is_banned value included.
C34_BinderKeepsIsBanned ==
    [][VerifyStep
        => \A t \in DOMAIN user_mappings :
              /\ t \in DOMAIN user_mappings'
              /\ user_mappings'[t].is_banned = user_mappings[t].is_banned
              /\ user_mappings'[t].telegram_id
                   = user_mappings[t].telegram_id]_vars

\* A request of an address that is marked banned was admitted and the
\* platform lifted the restriction; the mark is still there.
C34_Witness ==
    /\ result.op = "verify" /\ result.success
    /\ ExactlyOne(acts, "Unrestrict", "aa", "bb") /\ AllAccepted(acts)
    /\ BoundBanned(user_mappings, "aa")

\* C35: a verify request whose balance read fails is answered: the handler
\* does not panic, and it admits nobody (no Unrestrict is sent).
C35_BalanceFailureRecoverable ==
    [][\A req \in Requests :
        (VerifyStep /\ Verify(req, VFailBalance))
        => /\ result'.res # "panic"
           /\ acts' = << >>]_vars

\* C36: when a verify request with a valid signature and the processing of
\* the sell that empties the pair have both completed, in whatever order
\* their steps fell, and the contract and the ledger both hold 0 for the
\* pair, the bound identity is restricted in the subject's chat.
C36_RaceEndsRestricted ==
    (/\ own_shares = None /\ verifies >= 1 /\ nsteps >= 1
     /\ shares_balance[<<"aa", "bb">>] = 0
     /\ RowIsZero(trades, [trader |-> "aa", subject |-> "bb"])
     /\ "aa" \in DOMAIN user_mappings)
    => <<"bb", user_mappings["aa"].telegram_id>> \in chat

\* C37: a sell for a pair that has no ledger row, whatever else fails and
\* whether or not the trader is bound, leaves the trades table without that
\* row, leaves user_mappings and the chat as they are and issues no
\* moderation action; unless the ledger statement itself fails (or the
\* amount does not parse) the event returns Ok.
C37_SellWithoutRowIsNoOp ==
    [][\A e \in ProcEvents(engine), fail \in Fails :
        (/\ ~e.is_buy
         /\ Key(e.trader, e.subject) \notin DOMAIN trades
         /\ EventStepOf(e, fail))
        => /\ trades' = trades
           /\ user_mappings' = user_mappings
           /\ chat' = chat
           /\ acts' = << >>
           /\ (fail # FailLedgerWrite /\ e.amount >= 0)
              => result'.res = "ok"]_vars

\* A sell by a bound trader was processed while the ledger had no row.
C37_Witness ==
    /\ result.op = "sell" /\ result.res = "ok"
    /\ trades = EmptyTable
    /\ "aa" \in DOMAIN user_mappings
    /\ "bb" \in telegram_bots
    /\ acts = << >>

\* C38: once the head of the chain stands at its last height, the range
\* engine's persisted watermark eventually equals it, whatever the ranges
\* hold and whichever events fail in processing.
C38_WatermarkReachesHead ==
    (chain_head = MaxHead)
        ~> (sync_status # << >> /\ Persisted = MaxHead)

====
